---- MODULE Spec2Model ----
(***************************************************************************)
(* Appointment scheduling service (appointment_service.py): the in-memory  *)
(* record set appointments_db, the idempotency ledger idempotency_keys,    *)
(* and the operations create_appointment, update_appointment_status and    *)
(* delete_appointment with the helpers they call (validation, id           *)
(* generation, conflict detection).                                        *)
(*                                                                         *)
(* Python values are modelled as follows.  A str is a TLA+ string; where   *)
(* the code looks inside a string (strip, strptime) the operator Chars     *)
(* gives its characters.  A value whose dynamic type matters (payload      *)
(* entries, the id argument) is a record [t |-> type, v |-> value].  A     *)
(* dict is a function whose DOMAIN is the set of keys.  An exception is a  *)
(* return value of kind "ValueError" or "RuntimeError" whose msg is the    *)
(* message text, a sequence of string pieces in concatenation order.       *)
(***************************************************************************)
EXTENDS Integers, Sequences, FiniteSets, TLC

VARIABLES appointments_db, idempotency_keys, issued, last, calls, threads, held

vars == <<appointments_db, idempotency_keys, issued, last, calls, threads, held>>

(***************************************************************************)
(* Bounds of the model.                                                    *)
(***************************************************************************)
\* number of distinct values uuid4()[:8] can take in the model
MaxIds == 2
\* number of distinct non-empty idempotency keys clients use
MaxKeys == 1
\* number of seed rows of appointments_db the model starts with
MaxSeed == 1
\* number of calls in a run
MaxCalls == 3
\* number of records in a store that conflict detection is tried on
MaxStore == 4
\* number of records in a store that the metrics are computed on
MaxRows == 6
\* number of records in a collection that is searched for overlaps
MaxInput == 4

(***************************************************************************)
(* Program constants.                                                      *)
(***************************************************************************)
DefaultMaxRetries == 10
MaxDuration == 480

CONFIRMED == "Confirmed"
SCHEDULED == "Scheduled"
UPCOMING == "Upcoming"
CANCELLED == "Cancelled"

ONLINE == "online"
IN_PERSON == "in-person"

(***************************************************************************)
(* Strings as character sequences.                                         *)
(***************************************************************************)
Chars(s) ==
    CASE s = "" -> << >>
      [] s = "  " -> <<" ", " ">>
      [] s = "Ann" -> <<"A", "n", "n">>
      [] s = "Bob" -> <<"B", "o", "b">>
      [] s = "Dr. Johnson" -> <<"D", "r", ".", " ", "J", "o", "h", "n", "s", "o", "n">>
      [] s = "Dr. Smith" -> <<"D", "r", ".", " ", "S", "m", "i", "t", "h">>
      [] s = "2024-01-15" -> <<"2", "0", "2", "4", "-", "0", "1", "-", "1", "5">>
      [] s = "2024-01-16" -> <<"2", "0", "2", "4", "-", "0", "1", "-", "1", "6">>
      [] s = "2024-01-17" -> <<"2", "0", "2", "4", "-", "0", "1", "-", "1", "7">>
      [] s = "2024-01-18" -> <<"2", "0", "2", "4", "-", "0", "1", "-", "1", "8">>
      [] s = "2024-01-19" -> <<"2", "0", "2", "4", "-", "0", "1", "-", "1", "9">>
      [] s = "2024-01-20" -> <<"2", "0", "2", "4", "-", "0", "1", "-", "2", "0">>
      [] s = "2024-1-15" -> <<"2", "0", "2", "4", "-", "1", "-", "1", "5">>
      [] s = "2024-02-30" -> <<"2", "0", "2", "4", "-", "0", "2", "-", "3", "0">>
      [] s = "15/01/2024" -> <<"1", "5", "/", "0", "1", "/", "2", "0", "2", "4">>
      [] s = "2025-01-14" -> <<"2", "0", "2", "5", "-", "0", "1", "-", "1", "4">>
      [] s = "2025-01-15" -> <<"2", "0", "2", "5", "-", "0", "1", "-", "1", "5">>
      [] s = "08:30" -> <<"0", "8", ":", "3", "0">>
      [] s = "09:00" -> <<"0", "9", ":", "0", "0">>
      [] s = "9:15" -> <<"9", ":", "1", "5">>
      [] s = "09:30" -> <<"0", "9", ":", "3", "0">>
      [] s = "10:30" -> <<"1", "0", ":", "3", "0">>
      [] s = "14:00" -> <<"1", "4", ":", "0", "0">>
      [] s = "10:00" -> <<"1", "0", ":", "0", "0">>
      [] s = "11:15" -> <<"1", "1", ":", "1", "5">>
      [] s = "11:30" -> <<"1", "1", ":", "3", "0">>
      [] s = "13:45" -> <<"1", "3", ":", "4", "5">>
      [] s = "14:15" -> <<"1", "4", ":", "1", "5">>
      [] s = "15:30" -> <<"1", "5", ":", "3", "0">>
      [] s = "16:00" -> <<"1", "6", ":", "0", "0">>
      [] s = "09:15" -> <<"0", "9", ":", "1", "5">>
      [] s = "24:00" -> <<"2", "4", ":", "0", "0">>
      [] s = "9am" -> <<"9", "a", "m">>

DigitChars == <<"0", "1", "2", "3", "4", "5", "6", "7", "8", "9">>

IsDigit(c) == \E i \in 1..10 : DigitChars[i] = c

DigitVal(c) == (CHOOSE i \in 1..10 : DigitChars[i] = c) - 1

AllDigits(cs) == \A i \in 1..Len(cs) : IsDigit(cs[i])

RECURSIVE ToInt(_)
ToInt(cs) ==
    IF cs = << >> THEN 0
    ELSE 10 * ToInt(SubSeq(cs, 1, Len(cs) - 1)) + DigitVal(cs[Len(cs)])

\* str.split(sep) on a character sequence
RECURSIVE Split(_, _)
Split(cs, sep) ==
    IF \A i \in 1..Len(cs) : cs[i] # sep THEN <<cs>>
    ELSE LET k == CHOOSE i \in 1..Len(cs) :
                      cs[i] = sep /\ \A j \in 1..(i - 1) : cs[j] # sep
         IN  <<SubSeq(cs, 1, k - 1)>> \o Split(SubSeq(cs, k + 1, Len(cs)), sep)

\* str.strip(): what is left after removing leading and trailing blanks
RECURSIVE Strip(_)
Strip(cs) ==
    IF cs = << >> THEN << >>
    ELSE IF cs[1] = " " THEN Strip(Tail(cs))
    ELSE IF cs[Len(cs)] = " " THEN Strip(SubSeq(cs, 1, Len(cs) - 1))
    ELSE cs

ParseFailed == [ok |-> FALSE, hour |-> 0, minute |-> 0]

\* datetime.strptime(s, '%H:%M').time(): one or two digits each, 0..23 and 0..59
ParseHM(s) ==
    LET parts == Split(Chars(s), ":") IN
    IF Len(parts) # 2 THEN ParseFailed
    ELSE LET h == parts[1]
             m == parts[2]
         IN  IF /\ Len(h) \in 1..2 /\ AllDigits(h) /\ ToInt(h) <= 23
                /\ Len(m) \in 1..2 /\ AllDigits(m) /\ ToInt(m) <= 59
             THEN [ok |-> TRUE, hour |-> ToInt(h), minute |-> ToInt(m)]
             ELSE ParseFailed

IsLeap(y) == (y % 4 = 0 /\ y % 100 # 0) \/ y % 400 = 0

DaysInMonth(y, m) ==
    IF m = 2 THEN (IF IsLeap(y) THEN 29 ELSE 28)
    ELSE IF m \in {4, 6, 9, 11} THEN 30 ELSE 31

DateFailed == [ok |-> FALSE, year |-> 0, month |-> 0, day |-> 0]

\* datetime.strptime(s, '%Y-%m-%d'): four-digit year, month 1..12, a day of that month
ParseYMD(s) ==
    LET parts == Split(Chars(s), "-") IN
    IF Len(parts) # 3 THEN DateFailed
    ELSE LET y == parts[1]
             m == parts[2]
             d == parts[3]
         IN  IF /\ Len(y) = 4 /\ AllDigits(y) /\ ToInt(y) >= 1
                /\ Len(m) \in 1..2 /\ AllDigits(m) /\ ToInt(m) \in 1..12
                /\ Len(d) \in 1..2 /\ AllDigits(d) /\ ToInt(d) >= 1
                /\ ToInt(d) <= DaysInMonth(ToInt(y), ToInt(m))
             THEN [ok |-> TRUE, year |-> ToInt(y), month |-> ToInt(m), day |-> ToInt(d)]
             ELSE DateFailed

\* The strings of the model that are parsed as a time or as a date, and the
\* result of parsing each of them (computed once).
TimeStrings ==
    {"08:30", "09:00", "9:15", "09:15", "09:30", "10:00", "10:30", "11:15", "11:30",
     "13:45", "14:00", "14:15", "15:30", "16:00", "24:00", "9am", ""}

DateStrings ==
    {"2024-01-15", "2024-01-16", "2024-01-17", "2024-01-18", "2024-01-19", "2024-01-20",
     "2024-1-15", "2024-02-30", "15/01/2024", "2025-01-14", "2025-01-15", ""}

ParsedHM == [s \in TimeStrings |-> ParseHM(s)]

ParsedYMD == [s \in DateStrings |-> ParseYMD(s)]

StrptimeHM(s) == ParsedHM[s]

StrptimeYMD(s) == ParsedYMD[s]

\* str(e) of the ValueError that strptime(s, '%Y-%m-%d') raises: the text for
\* a day that the month does not have when year, month and a day of 1..31
\* were read, else the text for a string that is not of the format
StrptimeYMDError(s) ==
    LET parts == Split(Chars(s), "-") IN
    IF /\ Len(parts) = 3
       /\ Len(parts[1]) = 4 /\ AllDigits(parts[1])
       /\ Len(parts[2]) \in 1..2 /\ AllDigits(parts[2]) /\ ToInt(parts[2]) \in 1..12
       /\ Len(parts[3]) \in 1..2 /\ AllDigits(parts[3]) /\ ToInt(parts[3]) \in 1..31
    THEN <<"day is out of range for month">>
    ELSE <<"time data '", s, "' does not match format '%Y-%m-%d'">>

\* the days of the months before month m of year y
RECURSIVE DaysBeforeMonth(_, _)
DaysBeforeMonth(y, m) ==
    IF m = 1 THEN 0 ELSE DaysBeforeMonth(y, m - 1) + DaysInMonth(y, m - 1)

\* date.toordinal(): the number of the day, 0001-01-01 being day 1
ToOrdinal(d) ==
    LET y == d.year - 1 IN
    365 * y + (y \div 4) - (y \div 100) + (y \div 400)
        + DaysBeforeMonth(d.year, d.month) + d.day

(***************************************************************************)
(* Typed values.                                                           *)
(***************************************************************************)
PyStr(s) == [t |-> "str", v |-> s]
PyInt(n) == [t |-> "int", v |-> n]
\* True and False are ints in Python, equal to 1 and 0
PyBool(b) == [t |-> "bool", v |-> IF b THEN 1 ELSE 0]

\* isinstance(x, str), isinstance(x, int)
IsStr(x) == x.t = "str"
IsInt(x) == x.t \in {"int", "bool"}

\* a bug: the status is not checked
is_valid_status_Any(status) == TRUE

\* a bug: every non-empty status is taken
is_valid_status_NonEmpty(status) == status # ""

is_valid_status(status) == status \in {CONFIRMED, SCHEDULED, UPCOMING, CANCELLED}

is_valid_mode(mode) == mode \in {ONLINE, IN_PERSON}

(***************************************************************************)
(* validate_appointment_data_detailed: every field is checked, the errors  *)
(* are appended in the order of the checks.                                *)
(***************************************************************************)
PatientNameErrors(data) ==
    IF "patientName" \notin DOMAIN data THEN <<"Patient name is required">>
    ELSE IF ~IsStr(data["patientName"]) THEN <<"Patient name must be a string">>
    ELSE IF Strip(Chars(data["patientName"].v)) = << >>
         THEN <<"Patient name cannot be empty or whitespace only">>
    ELSE << >>

DateErrors(data) ==
    IF "date" \notin DOMAIN data THEN <<"Date is required">>
    ELSE IF ~IsStr(data["date"]) THEN <<"Date must be a string">>
    ELSE IF ~StrptimeYMD(data["date"].v).ok THEN <<"Date must be in YYYY-MM-DD format">>
    ELSE << >>

TimeErrors(data) ==
    IF "time" \notin DOMAIN data THEN <<"Time is required">>
    ELSE IF ~IsStr(data["time"]) THEN <<"Time must be a string">>
    ELSE IF ~StrptimeHM(data["time"].v).ok THEN <<"Time must be in HH:MM format (24-hour)">>
    ELSE << >>

DurationErrors(data) ==
    IF "duration" \notin DOMAIN data THEN <<"Duration is required">>
    ELSE IF ~IsInt(data["duration"]) THEN <<"Duration must be an integer">>
    ELSE IF data["duration"].v <= 0 THEN <<"Duration must be greater than 0 minutes">>
    ELSE IF data["duration"].v > MaxDuration
         THEN <<"Duration cannot exceed 480 minutes (8 hours)">>
    ELSE << >>

DoctorNameErrors(data) ==
    IF "doctorName" \notin DOMAIN data THEN <<"Doctor name is required">>
    ELSE IF ~IsStr(data["doctorName"]) THEN <<"Doctor name must be a string">>
    ELSE IF Strip(Chars(data["doctorName"].v)) = << >>
         THEN <<"Doctor name cannot be empty or whitespace only">>
    ELSE << >>

ModeErrors(data) ==
    IF "mode" \notin DOMAIN data THEN <<"Appointment mode is required">>
    ELSE IF ~IsStr(data["mode"]) THEN <<"Appointment mode must be a string">>
    ELSE IF ~is_valid_mode(data["mode"].v)
         THEN <<"Appointment mode must be one of: online, in-person">>
    ELSE << >>

validate_appointment_data_detailed(data) ==
    LET errors == PatientNameErrors(data) \o DateErrors(data) \o TimeErrors(data)
                  \o DurationErrors(data) \o DoctorNameErrors(data) \o ModeErrors(data)
    IN  [is_valid |-> Len(errors) = 0, errors |-> errors]


(***************************************************************************)
(* The seed rows of appointments_db.                                       *)
(***************************************************************************)
Appointment(id, patientName, date, time, duration, doctorName, status, mode) ==
    [id |-> id, patientName |-> patientName, date |-> date, time |-> time,
     duration |-> duration, doctorName |-> doctorName, status |-> status, mode |-> mode]

SeedAppointments ==
    << Appointment("apt_001", "John Smith", "2024-01-15", "09:00", 30, "Dr. Johnson", CONFIRMED, IN_PERSON),
       Appointment("apt_002", "Sarah Wilson", "2024-01-15", "10:30", 45, "Dr. Smith", SCHEDULED, ONLINE),
       Appointment("apt_003", "Michael Brown", "2024-01-16", "14:00", 60, "Dr. Johnson", UPCOMING, IN_PERSON),
       Appointment("apt_004", "Emily Davis", "2024-01-16", "11:15", 30, "Dr. Williams", CONFIRMED, ONLINE),
       Appointment("apt_005", "Robert Taylor", "2024-01-17", "08:30", 45, "Dr. Smith", SCHEDULED, IN_PERSON),
       Appointment("apt_006", "Lisa Anderson", "2024-01-17", "13:45", 30, "Dr. Johnson", CANCELLED, ONLINE),
       Appointment("apt_007", "David Martinez", "2024-01-18", "10:00", 60, "Dr. Williams", UPCOMING, IN_PERSON),
       Appointment("apt_008", "Jennifer Garcia", "2024-01-18", "15:30", 45, "Dr. Smith", CONFIRMED, ONLINE),
       Appointment("apt_009", "Christopher Lee", "2024-01-19", "09:15", 30, "Dr. Johnson", SCHEDULED, IN_PERSON),
       Appointment("apt_010", "Amanda White", "2024-01-19", "16:00", 45, "Dr. Williams", UPCOMING, ONLINE),
       Appointment("apt_011", "Kevin Thompson", "2024-01-20", "11:30", 60, "Dr. Smith", CONFIRMED, IN_PERSON),
       Appointment("apt_012", "Michelle Rodriguez", "2024-01-20", "14:15", 30, "Dr. Johnson", SCHEDULED, ONLINE) >>

(***************************************************************************)
(* Id generation.  uuid4()[:8] is a random draw; in the model it ranges    *)
(* over UuidSpace.  The seed ids ("apt_001") are not in the range of the   *)
(* generator, whose ids have eight hexadecimal digits.                     *)
(***************************************************************************)
UuidPool == <<"apt_0a1b2c3d", "apt_4e5f6a7b", "apt_8c9d0e1f", "apt_2a3b4c5d">>

UuidSpace == {UuidPool[i] : i \in 1..MaxIds}

\* a bug: the candidate id is not compared with the stored ids
ensure_unique_appointment_id_Always(appointment_id, db) == TRUE

ensure_unique_appointment_id(appointment_id, db) ==
    ~(\E i \in 1..Len(db) : db[i].id = appointment_id)

\* The outcomes of the retry loop with `remaining` iterations left after
\* `tried` draws, where free are the draws that ensure_unique_appointment_id
\* accepts and collides says that some draw is not accepted: a draw that is
\* accepted is returned; a draw that collides goes round again; no
\* iterations left raises RuntimeError.
\* a bug: the first draw that collides raises RuntimeError
RetryLoop_GivesUp(free, collides, remaining, tried) ==
    {[ok |-> TRUE, id |-> new_id, attempts |-> tried + 1] : new_id \in free}
    \cup (IF collides THEN {[ok |-> FALSE, id |-> "", attempts |-> tried + 1]} ELSE {})

RECURSIVE RetryLoop(_, _, _, _)
RetryLoop(free, collides, remaining, tried) ==
    IF remaining = 0
    THEN {[ok |-> FALSE, id |-> "", attempts |-> tried]}
    ELSE {[ok |-> TRUE, id |-> new_id, attempts |-> tried + 1] : new_id \in free}
         \cup (IF collides
               THEN RetryLoop(free, collides, remaining - 1, tried + 1)
               ELSE {})

generate_unique_id_with_retry(db, max_retries) ==
    LET free == {c \in UuidSpace : ensure_unique_appointment_id(c, db)}
        collides == \E c \in UuidSpace : ~ensure_unique_appointment_id(c, db)
    IN  RetryLoop(free, collides, max_retries, 0)

\* what the caller gets: the id, or the exception
Returned(outcomes) == {[ok |-> o.ok, id |-> o.id] : o \in outcomes}

(***************************************************************************)
(* Conflict detection.                                                     *)
(***************************************************************************)
Minutes(t) == t.hour * 60 + t.minute

\* a bug: only a stored record that starts inside the candidate's slot counts
IntervalsOverlap_StartInside(s1, e1, s2, e2) == s1 <= s2 /\ s2 < e1

\* a bug: closed intervals, so that slots that only touch count as overlapping
IntervalsOverlap_Closed(s1, e1, s2, e2) == s1 <= e2 /\ e1 >= s2

\* the overlap test of the candidate's minutes [s1, e1) and a stored
\* record's minutes [s2, e2)
IntervalsOverlap(s1, e1, s2, e2) == s1 < e2 /\ e1 > s2

\* a bug: the doctor is not compared
DifferentDateOrDoctor_DateOnly(existing_apt, appointment) ==
    existing_apt.date # appointment.date

\* a bug: a cancelled record is skipped as well
DifferentDateOrDoctor_OrCancelled(existing_apt, appointment) ==
    \/ existing_apt.date # appointment.date
    \/ existing_apt.doctorName # appointment.doctorName
    \/ existing_apt.status = CANCELLED

\* the test that skips a stored record of another date or another doctor
DifferentDateOrDoctor(existing_apt, appointment) ==
    existing_apt.date # appointment.date \/ existing_apt.doctorName # appointment.doctorName

\* The loop over appointments_db from index i on, with the conflicts
\* collected so far.  A ValueError while parsing a stored time leaves the
\* loop and returns what was collected.
RECURSIVE ConflictLoop(_, _, _, _)
ConflictLoop(appointment, db, i, conflicts) ==
    IF i > Len(db) THEN conflicts
    ELSE LET existing_apt == db[i] IN
         IF DifferentDateOrDoctor(existing_apt, appointment)
         THEN ConflictLoop(appointment, db, i + 1, conflicts)
         ELSE IF existing_apt.id = appointment.id
         THEN ConflictLoop(appointment, db, i + 1, conflicts)
         ELSE LET existing_time == StrptimeHM(existing_apt.time) IN
              IF ~existing_time.ok THEN conflicts
              ELSE LET apt_start_minutes == Minutes(StrptimeHM(appointment.time))
                       apt_end_minutes == apt_start_minutes + appointment.duration
                       existing_start_minutes == Minutes(existing_time)
                       existing_end_minutes == existing_start_minutes + existing_apt.duration
                   IN  IF IntervalsOverlap(apt_start_minutes, apt_end_minutes,
                                           existing_start_minutes, existing_end_minutes)
                       THEN ConflictLoop(appointment, db, i + 1,
                                         Append(conflicts, existing_apt))
                       ELSE ConflictLoop(appointment, db, i + 1, conflicts)

\* a bug: the scan stops at the first conflict
detect_scheduling_conflicts_First(appointment, db) ==
    IF ~StrptimeHM(appointment.time).ok THEN << >>
    ELSE LET all == ConflictLoop(appointment, db, 1, << >>) IN
         IF all = << >> THEN << >> ELSE <<all[1]>>

detect_scheduling_conflicts(appointment, db) ==
    IF ~StrptimeHM(appointment.time).ok THEN << >>
    ELSE ConflictLoop(appointment, db, 1, << >>)


(***************************************************************************)
(* Return values and raised exceptions.                                    *)
(***************************************************************************)
ReturnRecord(r) == [kind |-> "record", recs |-> <<r>>, msg |-> << >>, flag |-> FALSE]

ReturnBool(b) == [kind |-> "bool", recs |-> << >>, msg |-> << >>, flag |-> b]

Raise(kind, msg) == [kind |-> kind, recs |-> << >>, msg |-> msg, flag |-> FALSE]

NoReturn == [kind |-> "none", recs |-> << >>, msg |-> << >>, flag |-> FALSE]

\* sep.join(texts), each text a sequence of string pieces
RECURSIVE Join(_, _)
Join(texts, sep) ==
    IF texts = << >> THEN << >>
    ELSE IF Len(texts) = 1 THEN texts[1]
    ELSE texts[1] \o <<sep>> \o Join(Tail(texts), sep)

SeqToSet(seq) == {seq[i] : i \in 1..Len(seq)}

\* [f(x) for x in xs]
RECURSIVE ConflictDetails(_)
ConflictDetails(conflicts) ==
    IF conflicts = << >> THEN << >>
    ELSE << <<"Conflict with appointment ", conflicts[1].id, " at ", conflicts[1].time>> >>
         \o ConflictDetails(Tail(conflicts))

RECURSIVE ErrorTexts(_)
ErrorTexts(errors) ==
    IF errors = << >> THEN << >>
    ELSE << <<errors[1]>> >> \o ErrorTexts(Tail(errors))

(***************************************************************************)
(* The arguments the callers pass.                                         *)
(***************************************************************************)
KeyPool == <<"key-1", "key-2", "key-3">>

Keys == {KeyPool[i] : i \in 1..MaxKeys}

\* None and "" are both falsy: no idempotency key
NoKey == ""

KeyArgs == Keys \cup {NoKey}

Dict(items) == [type |-> "dict", items |-> items]

NotADict == [type |-> "list", items |-> << >>]

NoPayload == [type |-> "none", items |-> << >>]

NoId == [t |-> "none", v |-> ""]

Payload(patientName, date, time, duration, doctorName, mode) ==
    Dict([patientName |-> PyStr(patientName), date |-> PyStr(date), time |-> PyStr(time),
          duration |-> PyInt(duration), doctorName |-> PyStr(doctorName),
          mode |-> PyStr(mode)])

\* the same payload with a "status" entry
WithStatus(payload, status) == Dict(("status" :> PyStr(status)) @@ payload.items)

ValidPayloads ==
    { Payload("Ann", "2024-01-15", "09:30", 30, "Dr. Johnson", ONLINE),
      Payload("Bob", "2024-01-15", "08:30", 30, "Dr. Johnson", ONLINE),
      Payload("Bob", "2024-01-15", "9:15", 30, "Dr. Johnson", IN_PERSON),
      Payload("Ann", "2024-01-15", "09:00", 30, "Dr. Smith", ONLINE),
      WithStatus(Payload("Ann", "2024-01-16", "09:00", 30, "Dr. Johnson", ONLINE), CANCELLED) }

InvalidPayloads ==
    { NotADict,
      Payload("  ", "2024-01-15", "09:00", 30, "Dr. Johnson", "phone") }

PayloadArgs == ValidPayloads \cup InvalidPayloads

StatusArgs == {CANCELLED, "Pending"}

IdsOf(db) == {db[i].id : i \in 1..Len(db)}

SeedIds == {SeedAppointments[i].id : i \in 1..MaxSeed}

\* an id that no record has and the generator never draws
UnknownId == "apt_ffffffff"

\* the ids of the stored records, an id that no stored record has, and the
\* empty string
IdArgs(db) == {PyStr(x) : x \in IdsOf(db) \cup {UnknownId}} \cup {PyStr("")}

(***************************************************************************)
(* State.  appointments_db is the list of stored records, in list order;   *)
(* idempotency_keys is the dict from key to stored result; issued is the   *)
(* set of ids that a stored record has ever had (history); last is the     *)
(* latest call: its arguments, whether it returned from the ledger, and    *)
(* what it returned or raised; threads is, for each request thread of the  *)
(* server, where it stands inside the call it is running and the locals    *)
(* of that call (all threads stay idle where calls run one after another); *)
(* held is the list of the objects that the latest call has handed to its  *)
(* caller, each with the place it lives in (empty where no caller is       *)
(* followed).                                                              *)
(***************************************************************************)
Threads == {1, 2}

NoAppointment == Appointment("", "", "", "", 0, "", "", "")

Thread(pc, op, payload, id, status, key, new_appointment, mutated, ret) ==
    [pc |-> pc, op |-> op, payload |-> payload, id |-> id, status |-> status,
     key |-> key, new_appointment |-> new_appointment, mutated |-> mutated, ret |-> ret]

Idle == Thread("idle", "none", NoPayload, NoId, "", NoKey, NoAppointment, FALSE, NoReturn)

Call(op, payload, id, status, key, hit, ret) ==
    [op |-> op, payload |-> payload, id |-> id, status |-> status, key |-> key,
     hit |-> hit, ret |-> ret]

Init ==
    /\ appointments_db = SubSeq(SeedAppointments, 1, MaxSeed)
    /\ idempotency_keys = << >>
    /\ issued = SeedIds
    /\ last = Call("none", NoPayload, NoId, "", NoKey, FALSE, NoReturn)
    /\ calls = 0
    /\ threads = [t \in Threads |-> Idle]
    /\ held = << >>

(***************************************************************************)
(* The idempotency ledger as create and update use it: a lookup before     *)
(* anything else, a store after the mutation, both only for a truthy key.  *)
(***************************************************************************)
\* a bug: create does not look the key up
CreateReplays_Never(idempotency_key, ledger) == FALSE

CreateReplays(idempotency_key, ledger) ==
    idempotency_key # NoKey /\ idempotency_key \in DOMAIN ledger

\* a bug: create does not store its result under the key
RegisterCreated_Skip(idempotency_key, new_appointment, ledger) == ledger

RegisterCreated(idempotency_key, new_appointment, ledger) ==
    IF idempotency_key # NoKey
    THEN (idempotency_key :> new_appointment) @@ ledger
    ELSE ledger

\* a bug: update does not look the key up
UpdateReplays_Never(idempotency_key, ledger) == FALSE

UpdateReplays(idempotency_key, ledger) ==
    idempotency_key # NoKey /\ idempotency_key \in DOMAIN ledger

RegisterUpdated(idempotency_key, updated_appointment, ledger) ==
    IF idempotency_key # NoKey
    THEN (idempotency_key :> updated_appointment) @@ ledger
    ELSE ledger

(***************************************************************************)
(* create_appointment(payload, idempotency_key)                            *)
(***************************************************************************)
NewAppointment(id, items) ==
    Appointment(id, items["patientName"].v, items["date"].v, items["time"].v,
                items["duration"].v, items["doctorName"].v, SCHEDULED, items["mode"].v)

create_appointment(payload, idempotency_key) ==
    LET Done(hit, ret) ==
            last' = Call("create", payload, NoId, "", idempotency_key, hit, ret)
    IN
    IF CreateReplays(idempotency_key, idempotency_keys)
    THEN /\ Done(TRUE, ReturnRecord(idempotency_keys[idempotency_key]))
         /\ UNCHANGED <<appointments_db, idempotency_keys, issued>>
    ELSE IF payload.type # "dict"
    THEN /\ Done(FALSE, Raise("ValueError", <<"Payload must be a dictionary">>))
         /\ UNCHANGED <<appointments_db, idempotency_keys, issued>>
    ELSE LET validation == validate_appointment_data_detailed(payload.items) IN
    IF ~validation.is_valid
    THEN /\ Done(FALSE, Raise("ValueError",
                   <<"Validation failed: ">> \o Join(ErrorTexts(validation.errors), "; ")))
         /\ UNCHANGED <<appointments_db, idempotency_keys, issued>>
    ELSE \E new_id \in Returned(generate_unique_id_with_retry(appointments_db,
                                                                DefaultMaxRetries)) :
         IF ~new_id.ok
         THEN /\ Done(FALSE, Raise("RuntimeError",
                        <<"Unable to generate unique appointment ID after ", "10", " attempts">>))
              /\ UNCHANGED <<appointments_db, idempotency_keys, issued>>
         ELSE LET new_appointment == NewAppointment(new_id.id, payload.items)
                  conflicts == detect_scheduling_conflicts(new_appointment, appointments_db)
              IN
              IF conflicts # << >>
              THEN /\ Done(FALSE, Raise("ValueError",
                             <<"Scheduling conflicts detected: ">>
                             \o Join(ConflictDetails(conflicts), "; ")))
                   /\ UNCHANGED <<appointments_db, idempotency_keys, issued>>
              ELSE /\ appointments_db' = Append(appointments_db, new_appointment)
                   /\ issued' = issued \cup {new_appointment.id}
                   /\ idempotency_keys' =
                          RegisterCreated(idempotency_key, new_appointment, idempotency_keys)
                   /\ Done(FALSE, ReturnRecord(new_appointment))

(***************************************************************************)
(* update_appointment_status(appointment_id, new_status, idempotency_key)  *)
(***************************************************************************)
\* `not x`: the empty string and 0 are falsy
Falsy(x) == (x.t = "str" /\ x.v = "") \/ (x.t \in {"int", "bool"} /\ x.v = 0)

\* a bug: the search stops at the first record, whatever its id
IndexOfId_First(db, id) == IF db # << >> THEN 1 ELSE 0

\* index of the first record with the id, 0 when the loop finds none
IndexOfId(db, id) ==
    IF \E i \in 1..Len(db) : db[i].id = id
    THEN CHOOSE i \in 1..Len(db) :
             db[i].id = id /\ \A j \in 1..(i - 1) : db[j].id # id
    ELSE 0

\* a bug: the updated record is taken out of the list and put at its end
update_appointment_status_Reappend(appointment_id, new_status, idempotency_key) ==
    LET i == IndexOfId(appointments_db, appointment_id.v)
        Done(ret) == last' = Call("update_status", NoPayload, appointment_id, new_status,
                                  idempotency_key, FALSE, ret)
    IN  IF i = 0 \/ ~is_valid_status(new_status)
        THEN /\ Done(Raise("ValueError", <<"Invalid status: ", new_status>>))
             /\ UNCHANGED <<appointments_db, idempotency_keys, issued>>
        ELSE LET updated_appointment == [appointments_db[i] EXCEPT !.status = new_status] IN
             /\ appointments_db' =
                    Append(SubSeq(appointments_db, 1, i - 1)
                           \o SubSeq(appointments_db, i + 1, Len(appointments_db)),
                           updated_appointment)
             /\ Done(ReturnRecord(updated_appointment))
             /\ UNCHANGED <<idempotency_keys, issued>>

\* a bug: the key is put in the ledger when the call fails, too
update_appointment_status_KeyFirst(appointment_id, new_status, idempotency_key) ==
    LET i == IndexOfId(appointments_db, appointment_id.v)
        Done(hit, ret) == last' = Call("update_status", NoPayload, appointment_id, new_status,
                                       idempotency_key, hit, ret)
    IN  IF UpdateReplays(idempotency_key, idempotency_keys)
        THEN /\ Done(TRUE, ReturnRecord(idempotency_keys[idempotency_key]))
             /\ UNCHANGED <<appointments_db, idempotency_keys, issued>>
        ELSE IF i = 0 \/ ~is_valid_status(new_status)
        THEN /\ Done(FALSE, Raise("ValueError", <<"Appointment not found: ", appointment_id.v>>))
             /\ idempotency_keys' =
                    RegisterUpdated(idempotency_key, NoAppointment, idempotency_keys)
             /\ UNCHANGED <<appointments_db, issued>>
        ELSE LET updated_appointment == [appointments_db[i] EXCEPT !.status = new_status] IN
             /\ appointments_db' = [appointments_db EXCEPT ![i] = updated_appointment]
             /\ idempotency_keys' =
                    RegisterUpdated(idempotency_key, updated_appointment, idempotency_keys)
             /\ Done(FALSE, ReturnRecord(updated_appointment))
             /\ UNCHANGED issued

update_appointment_status(appointment_id, new_status, idempotency_key) ==
    LET Done(hit, ret) ==
            last' = Call("update_status", NoPayload, appointment_id, new_status,
                         idempotency_key, hit, ret)
    IN
    IF UpdateReplays(idempotency_key, idempotency_keys)
    THEN /\ Done(TRUE, ReturnRecord(idempotency_keys[idempotency_key]))
         /\ UNCHANGED <<appointments_db, idempotency_keys, issued>>
    ELSE IF Falsy(appointment_id)
    THEN /\ Done(FALSE, Raise("ValueError", <<"Appointment ID cannot be empty">>))
         /\ UNCHANGED <<appointments_db, idempotency_keys, issued>>
    ELSE IF ~IsStr(appointment_id)
    THEN /\ Done(FALSE, Raise("ValueError", <<"Appointment ID must be a string">>))
         /\ UNCHANGED <<appointments_db, idempotency_keys, issued>>
    ELSE IF ~is_valid_status(new_status)
    THEN /\ Done(FALSE, Raise("ValueError", <<"Invalid status: ", new_status>>))
         /\ UNCHANGED <<appointments_db, idempotency_keys, issued>>
    ELSE LET i == IndexOfId(appointments_db, appointment_id.v) IN
         IF i = 0
         THEN /\ Done(FALSE, Raise("ValueError",
                        <<"Appointment not found: ", appointment_id.v>>))
              /\ UNCHANGED <<appointments_db, idempotency_keys, issued>>
         ELSE LET updated_appointment == [appointments_db[i] EXCEPT !.status = new_status] IN
              /\ appointments_db' = [appointments_db EXCEPT ![i] = updated_appointment]
              /\ idempotency_keys' =
                     RegisterUpdated(idempotency_key, updated_appointment, idempotency_keys)
              /\ Done(FALSE, ReturnRecord(updated_appointment))
              /\ UNCHANGED issued

(***************************************************************************)
(* delete_appointment(appointment_id)                                      *)
(***************************************************************************)
delete_appointment(appointment_id) ==
    LET Done(ret) ==
            last' = Call("delete", NoPayload, appointment_id, "", NoKey, FALSE, ret)
    IN
    IF Falsy(appointment_id)
    THEN /\ Done(Raise("ValueError", <<"Appointment ID cannot be empty">>))
         /\ UNCHANGED <<appointments_db, idempotency_keys, issued>>
    ELSE IF ~IsStr(appointment_id)
    THEN /\ Done(Raise("ValueError", <<"Appointment ID must be a string">>))
         /\ UNCHANGED <<appointments_db, idempotency_keys, issued>>
    ELSE LET i == IndexOfId(appointments_db, appointment_id.v) IN
         IF i = 0
         THEN /\ Done(ReturnBool(FALSE))
              /\ UNCHANGED <<appointments_db, idempotency_keys, issued>>
         ELSE /\ appointments_db' = SubSeq(appointments_db, 1, i - 1)
                                    \o SubSeq(appointments_db, i + 1, Len(appointments_db))
              /\ Done(ReturnBool(TRUE))
              /\ UNCHANGED <<idempotency_keys, issued>>

\* one more call, while the run may go on
Called == calls < MaxCalls /\ calls' = calls + 1 /\ UNCHANGED <<threads, held>>

Create ==
    /\ Called
    /\ \E payload \in PayloadArgs, key \in KeyArgs : create_appointment(payload, key)

UpdateStatus ==
    /\ Called
    /\ \E id \in IdArgs(appointments_db), status \in StatusArgs, key \in KeyArgs :
           update_appointment_status(id, status, key)

Delete ==
    /\ Called
    /\ \E id \in IdArgs(appointments_db) : delete_appointment(id)

Next == Create \/ UpdateStatus \/ Delete

Spec == Init /\ [][Next]_vars

(***************************************************************************)
(* detect_scheduling_conflicts on its own: the store is any list of at     *)
(* most MaxStore records of ConflictPool (records that do not overlap each *)
(* other, as in every store the operations produce), and the one step asks *)
(* for the conflicts of a candidate.                                       *)
(***************************************************************************)
ConflictPool ==
    << SeedAppointments[1],
       NewAppointment(UuidPool[1], Payload("Ann", "2024-01-15", "09:30", 30, "Dr. Johnson", ONLINE).items),
       NewAppointment(UuidPool[2], Payload("Bob", "2024-01-15", "08:30", 30, "Dr. Johnson", ONLINE).items),
       NewAppointment(UuidPool[3], Payload("Ann", "2024-01-15", "09:00", 30, "Dr. Smith", ONLINE).items),
       NewAppointment(UuidPool[4], Payload("Ann", "2024-01-16", "09:00", 30, "Dr. Johnson", ONLINE).items) >>

\* the lists of n different records of the pool
RECURSIVE Arrangements(_)
Arrangements(n) ==
    IF n = 0 THEN {<< >>}
    ELSE {Append(st, ConflictPool[i]) :
             st \in Arrangements(n - 1),
             i \in 1..Len(ConflictPool)} 

Stores ==
    {st \in UNION {Arrangements(n) : n \in 0..MaxStore} :
        \A i, j \in 1..Len(st) : i # j => st[i].id # st[j].id}

CandidatePayloads ==
    ValidPayloads \cup
    { Payload("Ann", "2024-01-15", "09:00", 60, "Dr. Johnson", IN_PERSON),
      Payload("Bob", "2024-01-15", "08:30", 90, "Dr. Johnson", IN_PERSON) }

\* every candidate payload under each id of the pool and under an id that no
\* record has
Candidates ==
    {NewAppointment(id, payload.items) :
        id \in IdsOf(ConflictPool) \cup {UnknownId}, payload \in CandidatePayloads}

ConflictInit ==
    /\ appointments_db \in Stores
    /\ idempotency_keys = << >>
    /\ issued = IdsOf(appointments_db)
    /\ last = Call("none", NoPayload, NoId, "", NoKey, FALSE, NoReturn)
    /\ calls = 0
    /\ threads = [t \in Threads |-> Idle]
    /\ held = << >>

DetectConflicts ==
    /\ calls = 0
    /\ calls' = 1
    /\ \E candidate \in Candidates :
          last' = Call("detect_scheduling_conflicts",
                       [type |-> "appointment", items |-> candidate], NoId, "", NoKey, FALSE,
                       [kind |-> "list",
                        recs |-> detect_scheduling_conflicts(candidate, appointments_db),
                        msg |-> << >>, flag |-> FALSE])
    /\ UNCHANGED <<appointments_db, idempotency_keys, issued, threads, held>>

ConflictNext == DetectConflicts

ConflictSpec == ConflictInit /\ [][ConflictNext]_vars

(***************************************************************************)
(* Two requests at once.  app.run serves every request in a thread of its  *)
(* own and neither app.py nor appointment_service.py takes a lock, so the  *)
(* threads running create_appointment and update_appointment_status can    *)
(* be switched between any two of their accesses to appointments_db and    *)
(* idempotency_keys.  Each thread makes one call; a step of a thread is a  *)
(* stretch of the call from one access to the shared state to the next.    *)
(***************************************************************************)
ThreadPayloads ==
    { Payload("Ann", "2024-01-15", "09:30", 30, "Dr. Johnson", ONLINE),
      Payload("Bob", "2024-01-15", "9:15", 30, "Dr. Johnson", IN_PERSON),
      Payload("Ann", "2024-01-15", "09:00", 30, "Dr. Smith", ONLINE),
      Payload("  ", "2024-01-15", "09:00", 30, "Dr. Johnson", "phone") }

ThreadStatusArgs == {CANCELLED, UPCOMING, "Pending"}

\* thread t goes on to pc with the locals changed as given
Goto(t, pc, changes) == threads' = [threads EXCEPT ![t] = changes @@ [@ EXCEPT !.pc = pc]]

\* thread t has returned or raised ret
Finish(t, changes, ret) ==
    threads' = [threads EXCEPT ![t] = changes @@ [@ EXCEPT !.pc = "done", !.ret = ret]]

\* create_appointment up to the id generation: ledger lookup and validation
CreateLookup ==
    \E t \in Threads, payload \in ThreadPayloads, key \in KeyArgs :
        LET args == [op |-> "create", payload |-> payload, key |-> key] IN
        /\ threads[t].pc = "idle"
        /\ IF CreateReplays(key, idempotency_keys)
           THEN Finish(t, args, ReturnRecord(idempotency_keys[key]))
           ELSE LET validation == validate_appointment_data_detailed(payload.items) IN
                IF ~validation.is_valid
                THEN Finish(t, args, Raise("ValueError",
                         <<"Validation failed: ">> \o Join(ErrorTexts(validation.errors), "; ")))
                ELSE Goto(t, "create_generate", args)
        /\ UNCHANGED <<appointments_db, idempotency_keys, issued, last, calls, held>>

\* the new record with its generated id
CreateGenerate ==
    \E t \in Threads :
        /\ threads[t].pc = "create_generate"
        /\ \E new_id \in Returned(generate_unique_id_with_retry(appointments_db,
                                                                 DefaultMaxRetries)) :
              IF ~new_id.ok
              THEN Finish(t, << >>, Raise("RuntimeError",
                       <<"Unable to generate unique appointment ID after ", "10", " attempts">>))
              ELSE Goto(t, "create_detect",
                        [new_appointment |-> NewAppointment(new_id.id, threads[t].payload.items)])
        /\ UNCHANGED <<appointments_db, idempotency_keys, issued, last, calls, held>>

CreateDetect ==
    \E t \in Threads :
        /\ threads[t].pc = "create_detect"
        /\ LET conflicts ==
                   detect_scheduling_conflicts(threads[t].new_appointment, appointments_db)
           IN  IF conflicts # << >>
               THEN Finish(t, << >>, Raise("ValueError",
                        <<"Scheduling conflicts detected: ">>
                        \o Join(ConflictDetails(conflicts), "; ")))
               ELSE Goto(t, "create_append", << >>)
        /\ UNCHANGED <<appointments_db, idempotency_keys, issued, last, calls, held>>

CreateAppend ==
    \E t \in Threads :
        /\ threads[t].pc = "create_append"
        /\ appointments_db' = Append(appointments_db, threads[t].new_appointment)
        /\ issued' = issued \cup {threads[t].new_appointment.id}
        /\ Goto(t, "create_register", [mutated |-> TRUE])
        /\ UNCHANGED <<idempotency_keys, last, calls, held>>

CreateRegister ==
    \E t \in Threads :
        /\ threads[t].pc = "create_register"
        /\ idempotency_keys' =
               RegisterCreated(threads[t].key, threads[t].new_appointment, idempotency_keys)
        /\ Finish(t, << >>, ReturnRecord(threads[t].new_appointment))
        /\ UNCHANGED <<appointments_db, issued, last, calls, held>>

\* update_appointment_status up to the search: ledger lookup and the checks
\* of the arguments
UpdateLookup ==
    \E t \in Threads, id \in IdArgs(appointments_db), status \in ThreadStatusArgs,
       key \in KeyArgs :
        LET args == [op |-> "update_status", id |-> id, status |-> status, key |-> key] IN
        /\ threads[t].pc = "idle"
        /\ IF UpdateReplays(key, idempotency_keys)
           THEN Finish(t, args, ReturnRecord(idempotency_keys[key]))
           ELSE IF Falsy(id)
           THEN Finish(t, args, Raise("ValueError", <<"Appointment ID cannot be empty">>))
           ELSE IF ~IsStr(id)
           THEN Finish(t, args, Raise("ValueError", <<"Appointment ID must be a string">>))
           ELSE IF ~is_valid_status(status)
           THEN Finish(t, args, Raise("ValueError", <<"Invalid status: ", status>>))
           ELSE Goto(t, "update_find", args)
        /\ UNCHANGED <<appointments_db, idempotency_keys, issued, last, calls, held>>

\* the search, the write of the status and the copy of the record
UpdateFind ==
    \E t \in Threads :
        /\ threads[t].pc = "update_find"
        /\ LET i == IndexOfId(appointments_db, threads[t].id.v) IN
           IF i = 0
           THEN /\ Finish(t, << >>, Raise("ValueError",
                          <<"Appointment not found: ", threads[t].id.v>>))
                /\ UNCHANGED appointments_db
           ELSE LET updated_appointment ==
                        [appointments_db[i] EXCEPT !.status = threads[t].status]
                IN  /\ appointments_db' = [appointments_db EXCEPT ![i] = updated_appointment]
                    /\ Goto(t, "update_register",
                            [new_appointment |-> updated_appointment, mutated |-> TRUE])
        /\ UNCHANGED <<idempotency_keys, issued, last, calls, held>>

UpdateRegister ==
    \E t \in Threads :
        /\ threads[t].pc = "update_register"
        /\ idempotency_keys' =
               RegisterUpdated(threads[t].key, threads[t].new_appointment, idempotency_keys)
        /\ Finish(t, << >>, ReturnRecord(threads[t].new_appointment))
        /\ UNCHANGED <<appointments_db, issued, last, calls, held>>

ThreadNext ==
    \/ CreateLookup \/ CreateGenerate \/ CreateDetect \/ CreateAppend \/ CreateRegister
    \/ UpdateLookup \/ UpdateFind \/ UpdateRegister

ThreadSpec == Init /\ [][ThreadNext]_vars


(***************************************************************************)
(* The read operations.  Each is a function of its arguments and of the    *)
(* store; where the text of an error depends on the order in which Python  *)
(* writes out a set, the function gives every text that can come out.      *)
(***************************************************************************)
MaxRangeDays == 365

\* a bug: patientName is taken as a filter key and then ignored
ValidFilterKeys_Wide == {"date", "status", "doctorName", "patientName"}

ValidFilterKeys == {"date", "status", "doctorName"}

\* a bug: an empty result is returned as None
ReturnList_NoneWhenEmpty(recs) ==
    IF recs = << >> THEN [kind |-> "None", recs |-> << >>, msg |-> << >>, flag |-> FALSE]
    ELSE [kind |-> "list", recs |-> recs, msg |-> << >>, flag |-> FALSE]

ReturnList(recs) == [kind |-> "list", recs |-> recs, msg |-> << >>, flag |-> FALSE]

ReturnNone == [kind |-> "None", recs |-> << >>, msg |-> << >>, flag |-> FALSE]

\* the orders in which the elements of a set can be written out
Orders(S) ==
    {seq \in [1..Cardinality(S) -> S] :
        \A i, j \in 1..Cardinality(S) : i # j => seq[i] # seq[j]}

\* filters is None: the empty dict is used
FilterItems(filters) == IF filters.type = "dict" THEN filters.items ELSE << >>

\* a bug: an entry with an empty value counts as a filter
Has_Present(items, key) == key \in DOMAIN items

\* 'key' in filters and filters['key']
Has(items, key) == key \in DOMAIN items /\ items[key] # ""

get_appointments(filters, db) ==
    LET items == FilterItems(filters)
        invalid_keys == DOMAIN items \ ValidFilterKeys
    IN
    IF filters.type \notin {"none", "dict"}
    THEN {Raise("ValueError", <<"Filters must be a dictionary">>)}
    ELSE IF invalid_keys # {}
    THEN {Raise("ValueError", <<"Invalid filter keys: ">> \o written
                               \o <<". Valid keys are: ">> \o valid) :
             written \in Orders(invalid_keys), valid \in Orders(ValidFilterKeys)}
    ELSE IF Has(items, "status") /\ ~is_valid_status(items["status"])
    THEN {Raise("ValueError", <<"Invalid status: ", items["status"]>>)}
    ELSE IF Has(items, "date") /\ ~StrptimeYMD(items["date"]).ok
    THEN {Raise("ValueError",
                <<"Invalid date format: ", items["date"], ". Expected YYYY-MM-DD">>)}
    ELSE LET OfDate(apt) == apt.date = items["date"]
             OfStatus(apt) == apt.status = items["status"]
             OfDoctor(apt) == apt.doctorName = items["doctorName"]
             by_date == IF Has(items, "date") THEN SelectSeq(db, OfDate) ELSE db
             by_status == IF Has(items, "status") THEN SelectSeq(by_date, OfStatus)
                          ELSE by_date
             by_doctor == IF Has(items, "doctorName") THEN SelectSeq(by_status, OfDoctor)
                          ELSE by_status
         IN  {ReturnList(by_doctor)}

get_appointment_by_id(appointment_id, db) ==
    IF Falsy(appointment_id)
    THEN Raise("ValueError", <<"Appointment ID cannot be empty">>)
    ELSE IF ~IsStr(appointment_id)
    THEN Raise("ValueError", <<"Appointment ID must be a string">>)
    ELSE LET i == IndexOfId(db, appointment_id.v) IN
         IF i = 0 THEN ReturnNone ELSE ReturnRecord(db[i])

\* a bug: a range of exactly MaxRangeDays days is rejected too
validate_date_range_Under(start_date, end_date) ==
    IF ~StrptimeYMD(start_date).ok \/ ~StrptimeYMD(end_date).ok
    THEN [is_valid |-> FALSE, error_message |-> <<"Invalid date format: ">>]
    ELSE IF ToOrdinal(StrptimeYMD(start_date)) > ToOrdinal(StrptimeYMD(end_date))
    THEN [is_valid |-> FALSE, error_message |-> <<"Start date cannot be after end date">>]
    ELSE IF ToOrdinal(StrptimeYMD(end_date)) - ToOrdinal(StrptimeYMD(start_date))
               >= MaxRangeDays
    THEN [is_valid |-> FALSE, error_message |-> <<"Date range cannot exceed 365 days">>]
    ELSE [is_valid |-> TRUE, error_message |-> << >>]

validate_date_range(start_date, end_date) ==
    IF ~StrptimeYMD(start_date).ok
    THEN [is_valid |-> FALSE,
          error_message |-> <<"Invalid date format: ">> \o StrptimeYMDError(start_date)]
    ELSE IF ~StrptimeYMD(end_date).ok
    THEN [is_valid |-> FALSE,
          error_message |-> <<"Invalid date format: ">> \o StrptimeYMDError(end_date)]
    ELSE LET start == ToOrdinal(StrptimeYMD(start_date))
             end == ToOrdinal(StrptimeYMD(end_date))
         IN  IF start > end
             THEN [is_valid |-> FALSE,
                   error_message |-> <<"Start date cannot be after end date">>]
             ELSE IF end - start > MaxRangeDays
             THEN [is_valid |-> FALSE,
                   error_message |-> <<"Date range cannot exceed 365 days">>]
             ELSE [is_valid |-> TRUE, error_message |-> << >>]

\* overlaps is the dict in insertion order: a list of entries, each the key
\* (date, doctorName, earlier start minute of the pair) and its list
KeyIndex(overlaps, overlap_key) ==
    IF \E k \in 1..Len(overlaps) : overlaps[k].key = overlap_key
    THEN CHOOSE k \in 1..Len(overlaps) : overlaps[k].key = overlap_key
    ELSE 0

\* the pair put under overlap_key with no look at the ids already listed
AddPair_NoTest(overlaps, overlap_key, apt1, apt2) ==
    LET known == KeyIndex(overlaps, overlap_key)
        with_key == IF known = 0
                    THEN Append(overlaps, [key |-> overlap_key, appointments |-> << >>])
                    ELSE overlaps
        k == IF known = 0 THEN Len(with_key) ELSE known
    IN  [with_key EXCEPT ![k].appointments = Append(Append(@, apt1), apt2)]

\* the pair apt1, apt2 is put under overlap_key
AddPair(overlaps, overlap_key, apt1, apt2) ==
    LET known == KeyIndex(overlaps, overlap_key)
        with_key == IF known = 0
                    THEN Append(overlaps, [key |-> overlap_key, appointments |-> << >>])
                    ELSE overlaps
        k == IF known = 0 THEN Len(with_key) ELSE known
        listed == with_key[k].appointments
        apt1_ids == {listed[n].id : n \in 1..Len(listed)}
        with_apt1 == IF apt1.id \notin apt1_ids THEN Append(listed, apt1) ELSE listed
        with_apt2 == IF apt2.id \notin apt1_ids THEN Append(with_apt1, apt2) ELSE with_apt1
    IN  [with_key EXCEPT ![k].appointments = with_apt2]

RECURSIVE OverlapLoop(_, _, _, _)
OverlapLoop(appointments, i, j, overlaps) ==
    IF i > Len(appointments) THEN overlaps
    ELSE IF j > Len(appointments) THEN OverlapLoop(appointments, i + 1, i + 2, overlaps)
    ELSE LET apt1 == appointments[i]
             apt2 == appointments[j]
             skip == OverlapLoop(appointments, i, j + 1, overlaps)
         IN
         IF apt1.date # apt2.date \/ apt1.doctorName # apt2.doctorName THEN skip
         ELSE IF ~StrptimeHM(apt1.time).ok \/ ~StrptimeHM(apt2.time).ok THEN skip
         ELSE LET apt1_start_minutes == Minutes(StrptimeHM(apt1.time))
                  apt1_end_minutes == apt1_start_minutes + apt1.duration
                  apt2_start_minutes == Minutes(StrptimeHM(apt2.time))
                  apt2_end_minutes == apt2_start_minutes + apt2.duration
                  earlier == IF apt1_start_minutes < apt2_start_minutes
                             THEN apt1_start_minutes ELSE apt2_start_minutes
              IN  IF apt1_start_minutes < apt2_end_minutes
                     /\ apt2_start_minutes < apt1_end_minutes
                  THEN OverlapLoop(appointments, i, j + 1,
                           AddPair(overlaps, <<apt1.date, apt1.doctorName, earlier>>,
                                   apt1, apt2))
                  ELSE skip

\* date is "" where the caller passes None
get_overlapping_appointments(appointments, date) ==
    LET OfDate(apt) == apt.date = date
        of_date == IF date # "" THEN SelectSeq(appointments, OfDate) ELSE appointments
    IN  IF appointments = << >> THEN << >> ELSE OverlapLoop(of_date, 1, 2, << >>)

handle_empty_appointment_scenarios ==
    [no_appointments |-> "No appointments found for the selected criteria.",
     no_appointments_today |-> "No appointments scheduled for today.",
     no_upcoming_appointments |-> "No upcoming appointments found.",
     no_past_appointments |-> "No past appointments found.",
     no_appointments_for_doctor |-> "No appointments found for the selected doctor.",
     suggestions |-> <<"Try adjusting your date range",
                       "Check if appointments exist for other doctors",
                       "Create a new appointment using the \"New Appointment\" button",
                       "Clear any active filters to see all appointments">>]

get_appointments_with_overlap_detection(filters, db) ==
    LET items == FilterItems(filters)
        Result(appointments) ==
            LET overlaps ==
                    get_overlapping_appointments(appointments,
                        IF "date" \in DOMAIN items THEN items["date"] ELSE "")
            IN  [kind |-> "dict", recs |-> appointments, msg |-> << >>, flag |-> FALSE,
                 overlaps |-> overlaps,
                 empty_state |-> handle_empty_appointment_scenarios,
                 metadata |->
                     [total_count |-> Len(appointments),
                      has_overlaps |-> Len(overlaps) > 0,
                      overlap_count |-> Len(overlaps),
                      unique_dates |->
                          Cardinality({appointments[n].date : n \in 1..Len(appointments)}),
                      unique_doctors |->
                          Cardinality({appointments[n].doctorName :
                                          n \in 1..Len(appointments)}),
                      applied_filters |-> items]]
    IN
    IF /\ {"start_date", "end_date"} \subseteq DOMAIN items
       /\ ~validate_date_range(items["start_date"], items["end_date"]).is_valid
    THEN {Raise("ValueError",
                validate_date_range(items["start_date"], items["end_date"]).error_message)}
    ELSE {IF listed.kind = "list" THEN Result(listed.recs) ELSE listed :
             listed \in get_appointments(filters, db)}

(***************************************************************************)
(* The read operations on their own: the store is the seed row or not,     *)
(* followed by created records of ConflictPool in any order, and the one   *)
(* step is a call of get_appointments, get_appointment_by_id or            *)
(* get_appointments_with_overlap_detection.                                *)
(***************************************************************************)
ReadStores ==
    {st \in Stores :
        /\ Len(st) <= MaxStore - 2
        /\ \A i \in 2..Len(st) : st[i].id \notin SeedIds}

\* the dicts with no entry for key or one of the values under it
Optional(key, values) == {<< >>} \cup {key :> v : v \in values}

ListFilterArgs ==
    {Dict(date @@ status @@ doctorName @@ other) :
        date \in Optional("date", {"2024-01-15", "2024-01-16", "", "15/01/2024", "2024-1-15"}),
        status \in Optional("status", {SCHEDULED, CONFIRMED, "", "Pending"}),
        doctorName \in Optional("doctorName", {"Dr. Johnson", "Dr. Smith", ""}),
        other \in Optional("patientName", {"Ann"})}
    \cup {NoPayload, NotADict}

OverlapFilterArgs ==
    {Dict(start_date @@ end_date @@ date @@ doctorName @@ status) :
        start_date \in Optional("start_date",
                        {"2024-01-15", "2024-01-20", "2025-01-15", "15/01/2024", "2024-02-30"}),
        end_date \in Optional("end_date",
                        {"2024-01-15", "2025-01-14", "2025-01-15", "15/01/2024"}),
        date \in Optional("date", {"2024-01-15", "15/01/2024"}),
        doctorName \in Optional("doctorName", {"Dr. Johnson"}),
        status \in Optional("status", {"Pending"})}
    \cup {NoPayload, NotADict}

ReadInit ==
    /\ appointments_db \in ReadStores
    /\ idempotency_keys = << >>
    /\ issued = IdsOf(appointments_db)
    /\ last = Call("none", NoPayload, NoId, "", NoKey, FALSE, NoReturn)
    /\ calls = 0
    /\ threads = [t \in Threads |-> Idle]
    /\ held = << >>

\* one call that reads
Read ==
    /\ calls = 0
    /\ calls' = 1
    /\ UNCHANGED <<appointments_db, idempotency_keys, issued, threads, held>>

List ==
    /\ Read
    /\ \E filters \in ListFilterArgs :
          \E ret \in get_appointments(filters, appointments_db) :
              last' = Call("list", filters, NoId, "", NoKey, FALSE, ret)

Get ==
    /\ Read
    /\ \E id \in IdArgs(appointments_db) :
          last' = Call("get", NoPayload, id, "", NoKey, FALSE,
                       get_appointment_by_id(id, appointments_db))

ListWithOverlaps ==
    /\ Read
    /\ \E filters \in OverlapFilterArgs :
          \E ret \in get_appointments_with_overlap_detection(filters, appointments_db) :
              last' = Call("list_with_overlaps", filters, NoId, "", NoKey, FALSE, ret)

ReadNext == List \/ Get \/ ListWithOverlaps

ReadSpec == ReadInit /\ [][ReadNext]_vars

(***************************************************************************)
(* The caller and the records it is handed.  A dict that a call returns    *)
(* is an object: either a copy that only the caller has, or the very       *)
(* object that the ledger or the list of stored records holds.  held       *)
(* lists the objects of the latest return, each with the place it lives    *)
(* in and its fields; Mutate is the caller assigning to a field of one of  *)
(* them, which changes the object where it lives.                          *)
(***************************************************************************)
\* copy.deepcopy(r): a new object that only the caller has
Copy(r) == [owner |-> "caller", at |-> "", value |-> r]

\* the object stored as idempotency_keys[key]
LedgerEntry(key, r) == [owner |-> "ledger", at |-> key, value |-> r]

\* the object in appointments_db with the id
StoredRecord(id, r) == [owner |-> "store", at |-> id, value |-> r]

\* create_appointment returns copy.deepcopy(...) on both of its returns
create_returns(call) ==
    IF call.ret.kind = "record" THEN <<Copy(call.ret.recs[1])>> ELSE << >>

\* update_appointment_status returns a deepcopy of the ledger entry on a
\* replay; otherwise it returns updated_appointment, a deepcopy of the stored
\* record, which it has also put in the ledger when a key was given
update_returns(call) ==
    IF call.ret.kind # "record" THEN << >>
    ELSE IF call.hit \/ call.key = NoKey THEN <<Copy(call.ret.recs[1])>>
    ELSE <<LedgerEntry(call.key, call.ret.recs[1])>>

\* a bug: the stored dict itself is returned
get_returns_Stored(call) ==
    IF call.ret.kind = "record"
    THEN <<StoredRecord(call.ret.recs[1].id, call.ret.recs[1])>>
    ELSE << >>

\* get_appointment_by_id returns copy.deepcopy(appointment)
get_returns(call) ==
    IF call.ret.kind = "record" THEN <<Copy(call.ret.recs[1])>> ELSE << >>

\* get_appointments returns [copy.deepcopy(apt) for apt in result]
list_returns(call) ==
    IF call.ret.kind = "list"
    THEN [n \in 1..Len(call.ret.recs) |-> Copy(call.ret.recs[n])]
    ELSE << >>

CallerPayloads ==
    { Payload("Ann", "2024-01-15", "09:30", 30, "Dr. Johnson", ONLINE),
      Payload("Ann", "2024-01-15", "09:00", 30, "Dr. Smith", ONLINE) }

CallerFilters == {NoPayload, Dict([status |-> SCHEDULED])}

\* the fields the caller assigns to, and the value it assigns
CallerFields == {"status", "patientName"}

Changed == "changed"

\* one more call of the caller
Counted == calls < MaxCalls /\ calls' = calls + 1 /\ UNCHANGED threads

CallerCreate ==
    /\ Counted
    /\ \E payload \in CallerPayloads, key \in KeyArgs : create_appointment(payload, key)
    /\ held' = create_returns(last')

CallerUpdateStatus ==
    /\ Counted
    /\ \E id \in IdArgs(appointments_db), key \in KeyArgs :
           update_appointment_status(id, CANCELLED, key)
    /\ held' = update_returns(last')

CallerGet ==
    /\ Counted
    /\ \E id \in IdArgs(appointments_db) :
          last' = Call("get", NoPayload, id, "", NoKey, FALSE,
                       get_appointment_by_id(id, appointments_db))
    /\ held' = get_returns(last')
    /\ UNCHANGED <<appointments_db, idempotency_keys, issued>>

CallerList ==
    /\ Counted
    /\ \E filters \in CallerFilters :
          \E ret \in get_appointments(filters, appointments_db) :
              last' = Call("list", filters, NoId, "", NoKey, FALSE, ret)
    /\ held' = list_returns(last')
    /\ UNCHANGED <<appointments_db, idempotency_keys, issued>>

\* record[field] = Changed on the n-th object of the latest return
Mutate ==
    /\ last.op # "mutate"
    /\ \E n \in 1..Len(held), field \in CallerFields :
          LET ref == held[n] IN
          /\ held' = [held EXCEPT ![n].value[field] = Changed]
          /\ idempotency_keys' =
                 IF ref.owner = "ledger" /\ ref.at \in DOMAIN idempotency_keys
                 THEN [idempotency_keys EXCEPT ![ref.at][field] = Changed]
                 ELSE idempotency_keys
          /\ appointments_db' =
                 IF ref.owner = "store"
                 THEN [i \in 1..Len(appointments_db) |->
                          IF appointments_db[i].id = ref.at
                          THEN [appointments_db[i] EXCEPT ![field] = Changed]
                          ELSE appointments_db[i]]
                 ELSE appointments_db
          /\ last' = Call("mutate", NoPayload, PyStr(ref.value.id), field, NoKey, FALSE,
                          NoReturn)
    /\ UNCHANGED <<issued, calls, threads>>

CallerNext == CallerCreate \/ CallerUpdateStatus \/ CallerGet \/ CallerList \/ Mutate

CallerSpec == Init /\ [][CallerNext]_vars

(***************************************************************************)
(* get_dashboard_metrics()                                                 *)
(***************************************************************************)
\* number of peak hours, of busy days and of recent records that are reported
PeakHoursKept == 3
BusyDaysKept == 5
RecentKept == 5

\* ord(c) of the characters of dates and times
Ord(c) ==
    CASE c = " " -> 32 [] c = "-" -> 45 [] c = "." -> 46 [] c = "/" -> 47
      [] c = ":" -> 58 [] c = "a" -> 97 [] c = "m" -> 109
      [] OTHER -> 48 + DigitVal(c)

Ords(s) == [i \in 1..Len(Chars(s)) |-> Ord(Chars(s)[i])]

\* a < b for two lists of numbers, as Python compares lists, tuples and strings
RECURSIVE LexLess(_, _)
LexLess(a, b) ==
    IF b = << >> THEN FALSE
    ELSE IF a = << >> THEN TRUE
    ELSE IF a[1] # b[1] THEN a[1] < b[1]
    ELSE LexLess(Tail(a), Tail(b))

\* a bug: an item goes in front of the items of equal key
InsertDesc_BeforeEqual(sorted, x, key) ==
    LET k == Cardinality({i \in 1..Len(sorted) : LexLess(key[x], key[sorted[i]])})
    IN  SubSeq(sorted, 1, k) \o <<x>> \o SubSeq(sorted, k + 1, Len(sorted))

\* x put into a list of falling keys, behind the items of greater or equal key
InsertDesc(sorted, x, key) ==
    LET k == Cardinality({i \in 1..Len(sorted) : ~LexLess(key[sorted[i]], key[x])})
    IN  SubSeq(sorted, 1, k) \o <<x>> \o SubSeq(sorted, k + 1, Len(sorted))

RECURSIVE SortInto(_, _, _)
SortInto(sorted, xs, key) ==
    IF xs = << >> THEN sorted
    ELSE SortInto(InsertDesc(sorted, xs[1], key), Tail(xs), key)

\* sorted(xs, key=..., reverse=True): by falling key, items of equal key in
\* the order they have in xs
SortedDesc(xs, key) == SortInto(<< >>, xs, key)

\* xs[:n]
Take(xs, n) == SubSeq(xs, 1, IF Len(xs) < n THEN Len(xs) ELSE n)

\* a bug: every value gets an entry of its own
Count_NoMerge(counts, v) == Append(counts, [key |-> v, count |-> 1])

\* counts[v] = counts.get(v, 0) + 1
\* the dict as the list of its entries in insertion order
Count(counts, v) ==
    IF \E k \in 1..Len(counts) : counts[k].key = v
    THEN [k \in 1..Len(counts) |->
             IF counts[k].key = v THEN [counts[k] EXCEPT !.count = @ + 1] ELSE counts[k]]
    ELSE Append(counts, [key |-> v, count |-> 1])

RECURSIVE TallyInto(_, _)
TallyInto(counts, values) ==
    IF values = << >> THEN counts
    ELSE TallyInto(Count(counts, values[1]), Tail(values))

\* counts = {}; for v in values: counts[v] = counts.get(v, 0) + 1
Tally(values) == TallyInto(<< >>, values)

\* list(counts.keys())
TallyKeys(counts) == [k \in 1..Len(counts) |-> counts[k].key]

\* the count of each entry, as a sort key
TallyKey(counts) == [key \in SeqToSet(TallyKeys(counts)) |->
                        <<counts[CHOOSE k \in 1..Len(counts) : counts[k].key = key].count>>]

\* for x in xs: if x in counts: counts[x] += 1
RECURSIVE CountKnown(_, _)
CountKnown(counts, xs) ==
    IF xs = << >> THEN counts
    ELSE LET x == xs[1] IN
         CountKnown(IF x \in DOMAIN counts THEN [counts EXCEPT ![x] = @ + 1] ELSE counts,
                    Tail(xs))

RECURSIVE SumOf(_)
SumOf(xs) == IF xs = << >> THEN 0 ELSE xs[1] + SumOf(Tail(xs))

\* int(time_str.split(':')[0]), or no hour where int() raises ValueError
HourOf(time_str) ==
    LET head == Split(Chars(time_str), ":")[1] IN
    IF head # << >> /\ AllDigits(head) THEN <<ToInt(head)>> ELSE << >>

Hours == [s \in TimeStrings |-> HourOf(s)]

RECURSIVE HoursOf(_)
HoursOf(db) == IF db = << >> THEN << >> ELSE Hours[db[1].time] \o HoursOf(Tail(db))

\* round(total / n, 1) in tenths: to the nearest tenth, a tie to the even one
RoundTenths(total, n) ==
    LET q == (10 * total) \div n
        r == (10 * total) % n
    IN  IF 2 * r < n THEN q
        ELSE IF 2 * r > n THEN q + 1
        ELSE IF q % 2 = 0 THEN q ELSE q + 1

\* max(counts.keys(), key=lambda k: counts[k]): the first key of the largest
\* count
MaxByCount(counts) ==
    counts[CHOOSE k \in 1..Len(counts) :
              /\ \A j \in 1..Len(counts) : counts[j].count <= counts[k].count
              /\ \A j \in 1..(k - 1) : counts[j].count < counts[k].count].key

Activity(apt) ==
    [id |-> apt.id, patientName |-> apt.patientName, date |-> apt.date, time |-> apt.time,
     doctorName |-> apt.doctorName, status |-> apt.status, action |-> "scheduled"]

ReturnMetrics(total, statuses, modes, doctors, recent, average, common, peak, busy) ==
    [kind |-> "metrics", recs |-> << >>, msg |-> << >>, flag |-> FALSE,
     totalAppointments |-> total, statusCounts |-> statuses, modeCounts |-> modes,
     doctorCounts |-> doctors, recentActivity |-> recent, averageDuration |-> average,
     mostCommonDuration |-> common, peakHours |-> peak, busyDays |-> busy]

\* a bug: the counts by mode of the empty store are left empty
EmptyMetrics_NoModes ==
    ReturnMetrics(0, [x \in {CONFIRMED, SCHEDULED, UPCOMING, CANCELLED} |-> 0], << >>,
                  << >>, << >>, 0, 0, << >>, << >>)

\* what is returned `if not appointments_db`
EmptyMetrics ==
    ReturnMetrics(0, [x \in {CONFIRMED, SCHEDULED, UPCOMING, CANCELLED} |-> 0],
                  [x \in {ONLINE, IN_PERSON} |-> 0], << >>, << >>, 0, 0, << >>, << >>)

\* doctorCounts is the dict as the list of its entries; averageDuration is in
\* tenths of a minute
get_dashboard_metrics(db) ==
    LET no_status == [x \in {CONFIRMED, SCHEDULED, UPCOMING, CANCELLED} |-> 0]
        no_mode == [x \in {ONLINE, IN_PERSON} |-> 0]
    IN
    IF db = << >>
    THEN EmptyMetrics
    ELSE LET field(name) == [i \in 1..Len(db) |-> db[i][name]]
             durations == field("duration")
             dates == SelectSeq(field("date"), LAMBDA d : d # "")
             duration_counts == Tally(durations)
             hour_counts == Tally(HoursOf(db))
             date_counts == Tally(dates)
             moment == [apt \in SeqToSet(db) |-> Ords(apt.date) \o <<0>> \o Ords(apt.time)]
             sorted_appointments == SortedDesc(db, moment)
             recent == Take(sorted_appointments, RecentKept)
         IN  ReturnMetrics(
                 Len(db),
                 CountKnown(no_status, field("status")),
                 CountKnown(no_mode, field("mode")),
                 Tally(field("doctorName")),
                 [i \in 1..Len(recent) |-> Activity(recent[i])],
                 RoundTenths(SumOf(durations), Len(durations)),
                 MaxByCount(duration_counts),
                 Take(SortedDesc(TallyKeys(hour_counts), TallyKey(hour_counts)),
                      PeakHoursKept),
                 Take(SortedDesc(TallyKeys(date_counts), TallyKey(date_counts)),
                      BusyDaysKept))

(***************************************************************************)
(* ServiceSpec: every operation of the service, one call after another.    *)
(***************************************************************************)
ServiceFilters ==
    { NoPayload, Dict(<< >>), Dict([status |-> SCHEDULED]),
      Dict([start_date |-> "2024-01-15", end_date |-> "2024-01-16"]) }

ServiceCreate ==
    /\ Called
    /\ \E payload \in CallerPayloads, key \in KeyArgs : create_appointment(payload, key)

ServiceUpdateStatus ==
    /\ Called
    /\ \E id \in IdArgs(appointments_db), status \in StatusArgs, key \in KeyArgs :
           update_appointment_status(id, status, key)

ServiceDelete == Delete

\* a call that reads
Reads(op, payload, id, ret) ==
    /\ Called
    /\ last' = Call(op, payload, id, "", NoKey, FALSE, ret)
    /\ UNCHANGED <<appointments_db, idempotency_keys, issued>>

ServiceList ==
    \E filters \in ServiceFilters :
        \E ret \in get_appointments(filters, appointments_db) :
            Reads("list", filters, NoId, ret)

ServiceGet ==
    \E id \in IdArgs(appointments_db) :
        Reads("get", NoPayload, id, get_appointment_by_id(id, appointments_db))

ServiceListWithOverlaps ==
    \E filters \in ServiceFilters :
        \E ret \in get_appointments_with_overlap_detection(filters, appointments_db) :
            Reads("list_with_overlaps", filters, NoId, ret)

ServiceMetrics ==
    Reads("dashboard_metrics", NoPayload, NoId, get_dashboard_metrics(appointments_db))

ServiceNext ==
    \/ ServiceCreate
    \/ ServiceUpdateStatus
    \/ ServiceDelete
    \/ ServiceList
    \/ ServiceGet
    \/ ServiceListWithOverlaps
    \/ ServiceMetrics

ServiceSpec == Init /\ [][ServiceNext]_vars

(***************************************************************************)
(* MetricsSpec: get_dashboard_metrics by itself, on the lists of up to     *)
(* MaxRows different seed rows.                                            *)
(***************************************************************************)
MetricsPool ==
    << SeedAppointments[1], SeedAppointments[2], SeedAppointments[3], SeedAppointments[5],
       SeedAppointments[7], SeedAppointments[9], SeedAppointments[11] >>

\* the lists of n different records of the pool
RECURSIVE MetricsArrangements(_)
MetricsArrangements(n) ==
    IF n = 0 THEN {<< >>}
    ELSE UNION {{Append(st, MetricsPool[i]) :
                    i \in {k \in 1..Len(MetricsPool) :
                              \A j \in 1..Len(st) : st[j] # MetricsPool[k]}} :
                st \in MetricsArrangements(n - 1)}

MetricsStores == UNION {MetricsArrangements(n) : n \in 0..MaxRows}

MetricsInit ==
    /\ appointments_db \in MetricsStores
    /\ idempotency_keys = << >>
    /\ issued = IdsOf(appointments_db)
    /\ last = Call("none", NoPayload, NoId, "", NoKey, FALSE, NoReturn)
    /\ calls = 0
    /\ threads = [t \in Threads |-> Idle]
    /\ held = << >>

Metrics ==
    /\ Read
    /\ last' = Call("dashboard_metrics", NoPayload, NoId, "", NoKey, FALSE,
                    get_dashboard_metrics(appointments_db))

MetricsNext == Metrics

MetricsSpec == MetricsInit /\ [][MetricsNext]_vars

(***************************************************************************)
(* ValidateSpec: validate_appointment_data_detailed by itself.             *)
(***************************************************************************)
\* the tuple (is_valid, errors)
ReturnValidation(is_valid, errors) ==
    [kind |-> "validation", recs |-> << >>, msg |-> errors, flag |-> is_valid]

validate(payload) ==
    IF payload.type # "dict"
    THEN ReturnValidation(FALSE, <<"Appointment data must be a dictionary">>)
    ELSE LET result == validate_appointment_data_detailed(payload.items)
         IN  ReturnValidation(result.is_valid, result.errors)

ValidateArgs ==
    {Dict(patientName @@ date @@ time @@ duration @@ doctorName @@ mode) :
        patientName \in Optional("patientName", {PyStr("Ann"), PyStr("  "), PyInt(5)}),
        date \in Optional("date", {PyStr("2024-01-15"), PyStr("15/01/2024")}),
        time \in Optional("time", {PyStr("09:00"), PyStr("24:00")}),
        duration \in Optional("duration",
                        {PyInt(30), PyInt(0), PyInt(1), PyInt(MaxDuration),
                         PyInt(MaxDuration + 1), PyInt(-5), PyStr("30"),
                         PyBool(TRUE), PyBool(FALSE)}),
        doctorName \in Optional("doctorName", {PyStr("Dr. Johnson"), PyStr("  ")}),
        mode \in Optional("mode", {PyStr(ONLINE), PyStr("phone")})}
    \cup {NotADict}

Validate ==
    /\ Read
    /\ \E payload \in ValidateArgs :
          last' = Call("validate", payload, NoId, "", NoKey, FALSE, validate(payload))

ValidateNext == Validate

ValidateSpec == Init /\ [][ValidateNext]_vars

(***************************************************************************)
(* OverlapSpec: get_overlapping_appointments by itself, on the lists of    *)
(* up to MaxInput different records of a pool in which records overlap.    *)
(***************************************************************************)
OverlapPool ==
    << Appointment("apt_a", "Ann", "2024-01-15", "09:00", 40, "Dr. Johnson", SCHEDULED, ONLINE),
       Appointment("apt_b", "Bob", "2024-01-15", "09:30", 40, "Dr. Johnson", SCHEDULED, ONLINE),
       Appointment("apt_c", "Ann", "2024-01-15", "10:00", 30, "Dr. Johnson", CONFIRMED, ONLINE),
       Appointment("apt_d", "Bob", "2024-01-15", "09:15", 15, "Dr. Johnson", CANCELLED, IN_PERSON),
       Appointment("apt_e", "Ann", "2024-01-15", "09:00", 30, "Dr. Smith", SCHEDULED, ONLINE),
       Appointment("apt_f", "Bob", "2024-01-16", "09:00", 40, "Dr. Johnson", SCHEDULED, ONLINE) >>

\* the lists of n different records of the pool
RECURSIVE OverlapArrangements(_)
OverlapArrangements(n) ==
    IF n = 0 THEN {<< >>}
    ELSE UNION {{Append(st, OverlapPool[i]) :
                    i \in {k \in 1..Len(OverlapPool) :
                              \A j \in 1..Len(st) : st[j] # OverlapPool[k]}} :
                st \in OverlapArrangements(n - 1)}

OverlapInputs == UNION {OverlapArrangements(n) : n \in 0..MaxInput}

\* the dict of the clusters, as the list of its entries in insertion order
ReturnOverlaps(overlaps) ==
    [kind |-> "overlaps", recs |-> << >>, msg |-> << >>, flag |-> FALSE,
     overlaps |-> overlaps]

FindOverlaps ==
    /\ Read
    /\ \E appointments \in OverlapInputs, date \in {"", "2024-01-15"} :
          last' = Call("get_overlapping_appointments",
                       [type |-> "list", items |-> appointments], NoId, date, NoKey, FALSE,
                       ReturnOverlaps(get_overlapping_appointments(appointments, date)))

OverlapNext == FindOverlaps

OverlapSpec == Init /\ [][OverlapNext]_vars

(***************************************************************************)
(* StoredOverlapSpec: get_appointments_with_overlap_detection on a store   *)
(* that is a list of up to MaxInput different records of OverlapPool.      *)
(* Records that overlap are in a store together after two creates that ran *)
(* at the same time, each having looked for conflicts before the other     *)
(* appended (ThreadSpec).                                                  *)
(***************************************************************************)
StoredOverlapFilters ==
    {NoPayload, Dict([date |-> "2024-01-15"]), Dict([doctorName |-> "Dr. Johnson"]),
     Dict([status |-> SCHEDULED])}

StoredOverlapInit ==
    /\ appointments_db \in OverlapInputs
    /\ idempotency_keys = << >>
    /\ issued = IdsOf(appointments_db)
    /\ last = Call("none", NoPayload, NoId, "", NoKey, FALSE, NoReturn)
    /\ calls = 0
    /\ threads = [t \in Threads |-> Idle]
    /\ held = << >>

ListStoredOverlaps ==
    /\ Read
    /\ \E filters \in StoredOverlapFilters :
          \E ret \in get_appointments_with_overlap_detection(filters, appointments_db) :
              last' = Call("list_with_overlaps", filters, NoId, "", NoKey, FALSE, ret)

StoredOverlapNext == ListStoredOverlaps

StoredOverlapSpec == StoredOverlapInit /\ [][StoredOverlapNext]_vars

(***************************************************************************)
(* SnapshotSpec: get_appointments running in one thread while other        *)
(* requests update statuses and delete records.  The service takes no      *)
(* lock.  get_appointments copies the list (line 186), which gives it the  *)
(* same record objects that the store holds; the status filter (199) and   *)
(* the deep copy (206) read these objects one after another, and           *)
(* update_appointment_status assigns to the status of the object in place  *)
(* (321).  A record that delete has popped (352) stays in the copied list  *)
(* with the value it had.  The steps of a list call are: the checks and    *)
(* the copy of the list; the status filter, record by record; the deep     *)
(* copy, record by record; the return.  date and doctorName are not        *)
(* written after a record is made, so only the status filter is modelled.  *)
(* update_appointment_status and delete_appointment are one step each.     *)
(* One list call is followed from its start to its return.                 *)
(***************************************************************************)
SnapshotFilters == {NoPayload, Dict([status |-> CONFIRMED]), Dict([status |-> SCHEDULED])}

SnapshotStatusArgs == {CANCELLED, SCHEDULED}

\* a reference to the object of the stored record with the id; once the
\* record is popped from the store, the object with the value it keeps
Ref(id) == [live |-> TRUE, id |-> id, value |-> NoAppointment]

Deref(ref, db) == IF ref.live THEN db[IndexOfId(db, ref.id)] ELSE ref.value

Lister(pc, filters, result, k, kept, out, seen, ret) ==
    [pc |-> pc, op |-> "list", payload |-> filters, result |-> result, k |-> k,
     kept |-> kept, out |-> out, seen |-> seen, ret |-> ret]

Listing(t) == threads[t].op = "list" /\ threads[t].pc # "done"

\* the list calls under way see the store db come about; the objects of the
\* records that left the store keep their values
Observed(db) ==
    LET Kept(ref) == IF ref.live /\ ref.id \notin IdsOf(db)
                     THEN [live |-> FALSE, id |-> ref.id,
                           value |-> Deref(ref, appointments_db)]
                     ELSE ref
        Refs(refs) == [n \in 1..Len(refs) |-> Kept(refs[n])]
    IN  [t \in Threads |->
            IF Listing(t)
            THEN [threads[t] EXCEPT !.seen = @ \cup {db},
                                    !.result = Refs(@), !.kept = Refs(@)]
            ELSE threads[t]]

\* the store at the start: seed rows, one more than MaxSeed
SnapshotStore == SubSeq(SeedAppointments, 1, MaxSeed + 1)

SnapshotInit ==
    /\ appointments_db = SnapshotStore
    /\ idempotency_keys = << >>
    /\ issued = IdsOf(SnapshotStore)
    /\ last = Call("none", NoPayload, NoId, "", NoKey, FALSE, NoReturn)
    /\ calls = 0
    /\ threads = [t \in Threads |-> Idle]
    /\ held = << >>

\* lines 168-186: the checks, which these filters pass, and result, the copy
\* of the list
ListStart ==
    \E t \in Threads, filters \in SnapshotFilters :
        LET result == [n \in 1..Len(appointments_db) |-> Ref(appointments_db[n].id)]
            filtered == Has(FilterItems(filters), "status") /\ result # << >>
        IN  /\ \A u \in Threads : threads[u].pc = "idle"
            /\ threads' = [threads EXCEPT ![t] =
                              Lister(IF filtered THEN "list_status" ELSE "list_copy", filters,
                                     result, 1, IF filtered THEN << >> ELSE result, << >>,
                                     {appointments_db}, NoReturn)]
            /\ UNCHANGED <<appointments_db, idempotency_keys, issued, last, calls, held>>

\* lines 198-199: the status filter looks at the record at k
ListStatus ==
    \E t \in Threads :
        LET me == threads[t]
            apt == Deref(me.result[me.k], appointments_db)
            kept == IF apt.status = me.payload.items["status"]
                    THEN Append(me.kept, me.result[me.k]) ELSE me.kept
        IN  /\ me.pc = "list_status"
            /\ threads' = [threads EXCEPT ![t] =
                              IF me.k = Len(me.result)
                              THEN [me EXCEPT !.pc = "list_copy", !.k = 1, !.kept = kept]
                              ELSE [me EXCEPT !.k = @ + 1, !.kept = kept]]
            /\ UNCHANGED <<appointments_db, idempotency_keys, issued, last, calls, held>>

\* line 206: the deep copy of the record at k
ListCopy ==
    \E t \in Threads :
        LET me == threads[t] IN
        /\ me.pc = "list_copy" /\ me.k <= Len(me.kept)
        /\ threads' = [threads EXCEPT ![t] =
                          [me EXCEPT !.k = @ + 1,
                                     !.out = Append(@, Deref(me.kept[me.k], appointments_db))]]
        /\ UNCHANGED <<appointments_db, idempotency_keys, issued, last, calls, held>>

\* line 206: the list of the copies is returned
ListReturn ==
    \E t \in Threads :
        LET me == threads[t] IN
        /\ me.pc = "list_copy" /\ me.k > Len(me.kept)
        /\ threads' = [threads EXCEPT ![t] = [me EXCEPT !.pc = "done", !.ret = ReturnList(me.out)]]
        /\ last' = Call("list", me.payload, NoId, "", NoKey, FALSE, ReturnList(me.out))
        /\ UNCHANGED <<appointments_db, idempotency_keys, issued, calls, held>>

\* one more call of an operation that writes
Wrote == calls < MaxCalls /\ calls' = calls + 1 /\ threads' = Observed(appointments_db') /\ UNCHANGED held

SnapshotUpdateStatus ==
    /\ \E id \in IdArgs(appointments_db), status \in SnapshotStatusArgs :
          update_appointment_status(id, status, NoKey)
    /\ Wrote

SnapshotDelete ==
    /\ \E id \in IdArgs(appointments_db) : delete_appointment(id)
    /\ Wrote

SnapshotNext ==
    ListStart \/ ListStatus \/ ListCopy \/ ListReturn \/ SnapshotUpdateStatus \/ SnapshotDelete

SnapshotSpec == SnapshotInit /\ [][SnapshotNext]_vars

(***************************************************************************)
(* Properties.                                                             *)
(*                                                                         *)
(* The slot of a record is the set of minutes [start, start + duration).   *)
(***************************************************************************)
StartOf(r) == Minutes(StrptimeHM(r.time))

EndOf(r) == StartOf(r) + r.duration

Slot(r) == StartOf(r)..(EndOf(r) - 1)

SameDoctorAndDate(a, b) == a.doctorName = b.doctorName /\ a.date = b.date

Touching(a, b) == EndOf(a) = StartOf(b) \/ EndOf(b) = StartOf(a)

StoredRecords == {appointments_db[i] : i \in 1..Len(appointments_db)}

\* C1: no two stored records of the same doctorName and date have
\* intersecting slots; it holds of the seed rows and create, update_status
\* and delete keep it.
C1_NoDoubleBooking ==
    \A i, j \in 1..Len(appointments_db) :
        (i < j /\ SameDoctorAndDate(appointments_db[i], appointments_db[j]))
            => Slot(appointments_db[i]) \cap Slot(appointments_db[j]) = {}

\* a create has appended a record next to a stored record of the same doctor
\* and date whose slot touches it, and the store holds both
C1_Witness ==
    /\ last.op = "create" /\ last.ret.kind = "record" /\ ~last.hit
    /\ \E i, j \in 1..Len(appointments_db) :
          /\ i < j
          /\ appointments_db[j] = last.ret.recs[1]
          /\ SameDoctorAndDate(appointments_db[i], appointments_db[j])
          /\ Touching(appointments_db[i], appointments_db[j])

\* the claim's condition for a stored record to conflict with a candidate
ConflictsWith(candidate, other) ==
    /\ other.date = candidate.date
    /\ other.doctorName = candidate.doctorName
    /\ other.id # candidate.id
    /\ StartOf(candidate) < EndOf(other)
    /\ StartOf(other) < EndOf(candidate)

\* C2: detect_scheduling_conflicts returns exactly the stored records of the
\* candidate's date and doctorName, with another id, whose slot satisfies
\* candidate.start < other.end and other.start < candidate.end: all of them,
\* each once and in store order, and none whose slot only touches the
\* candidate's.
C2_ConflictsExact ==
    last.op = "detect_scheduling_conflicts" =>
        LET candidate == last.payload.items
            conflicts == last.ret.recs
        IN  /\ SeqToSet(conflicts) = {r \in StoredRecords : ConflictsWith(candidate, r)}
            /\ Len(conflicts) = Cardinality(SeqToSet(conflicts))
            /\ \A m, n \in 1..Len(conflicts) :
                  m < n => IndexOfId(appointments_db, conflicts[m].id)
                             < IndexOfId(appointments_db, conflicts[n].id)
            /\ \A r \in StoredRecords :
                  (SameDoctorAndDate(candidate, r) /\ Touching(candidate, r)
                   /\ Slot(candidate) \cap Slot(r) = {})
                      => r \notin SeqToSet(conflicts)

\* the call returned two conflicts and left out a stored record of the
\* candidate's doctor and date that touches the candidate's slot, a stored
\* record of another doctor at the same time, and one of another date
C2_Witness ==
    /\ last.op = "detect_scheduling_conflicts"
    /\ Len(last.ret.recs) >= 2
    /\ \E r \in StoredRecords :
          /\ SameDoctorAndDate(last.payload.items, r)
          /\ Touching(last.payload.items, r)
          /\ r \notin SeqToSet(last.ret.recs)
    /\ Len(appointments_db) > Len(last.ret.recs) + 1

\* C3: of two create calls in a row with the same idempotency key, the first
\* of which returned a record, the second returns the identical result
\* whatever its payload and leaves store and ledger as the first left them;
\* and a create with a key that is not in the ledger appends, when it
\* succeeds, exactly the one record it returns.
C3_CreateTwiceSameKey ==
    [][ (last'.op = "create" /\ last'.key # NoKey) =>
          /\ (last'.key \notin DOMAIN idempotency_keys /\ last'.ret.kind = "record")
                => appointments_db' = Append(appointments_db, last'.ret.recs[1])
          /\ (last.op = "create" /\ last.key = last'.key /\ last.ret.kind = "record")
                => /\ last'.ret = last.ret
                   /\ appointments_db' = appointments_db
                   /\ idempotency_keys' = idempotency_keys ]_vars

\* a create with a key was answered from the ledger with a record that a
\* create stored, although its payload asks for another time
C3_Witness ==
    /\ last.op = "create" /\ last.key # NoKey /\ last.hit
    /\ last.ret.kind = "record"
    /\ last.ret.recs[1].id \in UuidSpace
    /\ last.ret.recs[1].status = SCHEDULED
    /\ last.payload.type = "dict"
    /\ last.payload.items["time"].v # last.ret.recs[1].time
    /\ Cardinality({i \in 1..Len(appointments_db) :
                       appointments_db[i].id = last.ret.recs[1].id}) = 1

\* C4 (as claimed): a create that appends a record returns it with status
\* Scheduled and with an id that no record of the store has had before,
\* records deleted since included.
C4_FreshIdScheduled ==
    [][ (last'.op = "create" /\ ~last'.hit /\ last'.ret.kind = "record") =>
          /\ last'.ret.recs[1].status = SCHEDULED
          /\ last'.ret.recs[1].id \notin issued ]_vars

\* C5: no two stored records have the same id.
C5_UniqueIds ==
    \A i, j \in 1..Len(appointments_db) :
        i # j => appointments_db[i].id # appointments_db[j].id

\* every id the generator can draw is the id of a stored record: the later
\* creates had to avoid the ids in use
C5_Witness ==
    /\ UuidSpace \subseteq IdsOf(appointments_db)
    /\ last.op = "create" /\ last.ret.kind = "record" /\ ~last.hit

\* C6: a create or update_status whose key is in the ledger returns the
\* stored result and changes neither store nor ledger, whatever its other
\* arguments; so a call with a key changes the store only if the key was not
\* in the ledger before, and it is in the ledger afterwards.
C6_ReplayLeavesStore ==
    [][ (last'.op \in {"create", "update_status"} /\ last'.key # NoKey) =>
          /\ last'.key \in DOMAIN idempotency_keys
                => /\ last'.ret = ReturnRecord(idempotency_keys[last'.key])
                   /\ appointments_db' = appointments_db
                   /\ idempotency_keys' = idempotency_keys
          /\ appointments_db' # appointments_db
                => /\ last'.key \notin DOMAIN idempotency_keys
                   /\ last'.key \in DOMAIN idempotency_keys' ]_vars

\* an update_status with a key of the ledger returned the stored result,
\* which is the record of another id than the one it names, and the record it
\* names is stored with another status than the one it asks for
C6_Witness ==
    /\ last.op = "update_status" /\ last.hit /\ last.key \in DOMAIN idempotency_keys
    /\ last.ret = ReturnRecord(idempotency_keys[last.key])
    /\ last.id.v # last.ret.recs[1].id
    /\ is_valid_status(last.status)
    /\ \E r \in StoredRecords : r.id = last.id.v /\ r.status # last.status

\* C7: a key of the ledger stays in the ledger with the result it has.
C7_LedgerKeeps ==
    [][ \A k \in DOMAIN idempotency_keys :
           k \in DOMAIN idempotency_keys' /\ idempotency_keys'[k] = idempotency_keys[k] ]_vars

\* the ledger holds a result for a key, a later call with that key was
\* answered from it, and the store no longer holds the record as the result
\* has it
C7_Witness ==
    /\ last.hit /\ last.key \in DOMAIN idempotency_keys
    /\ idempotency_keys[last.key] \notin StoredRecords

PayloadIsValid(payload) ==
    payload.type = "dict" /\ validate_appointment_data_detailed(payload.items).is_valid

\* the stored records of the payload's doctor and date whose slot intersects
\* the payload's
Colliding(payload, db) ==
    LET candidate == NewAppointment("", payload.items) IN
    {r \in SeqToSet(db) : SameDoctorAndDate(r, candidate) /\ Slot(r) \cap Slot(candidate) # {}}

\* the message names the record: "Conflict with appointment <id> at <time>"
Names(msg, r) ==
    \E i \in 1..(Len(msg) - 3) :
        /\ msg[i] = "Conflict with appointment " /\ msg[i + 1] = r.id
        /\ msg[i + 2] = " at " /\ msg[i + 3] = r.time

\* a create that is not answered from the ledger and gets an id
CreateReachesConflictCheck ==
    /\ last'.op = "create"
    /\ ~(last'.key # NoKey /\ last'.key \in DOMAIN idempotency_keys)
    /\ PayloadIsValid(last'.payload)
    /\ last'.ret.kind # "RuntimeError"

\* C8: a create with a valid payload that overlaps stored records of its
\* doctor and date raises the conflict error, whose message names the id and
\* time of each of them and of no other record, and leaves store and ledger
\* unchanged.
C8_ConflictRejected ==
    [][ (CreateReachesConflictCheck /\ Colliding(last'.payload, appointments_db) # {}) =>
          /\ last'.ret.kind = "ValueError"
          /\ last'.ret.msg[1] = "Scheduling conflicts detected: "
          /\ \A r \in Colliding(last'.payload, appointments_db) : Names(last'.ret.msg, r)
          /\ Cardinality({i \in 1..Len(last'.ret.msg) :
                             last'.ret.msg[i] = "Conflict with appointment "})
                = Cardinality(Colliding(last'.payload, appointments_db))
          /\ appointments_db' = appointments_db
          /\ idempotency_keys' = idempotency_keys ]_vars

\* a create was rejected with a message that names two stored records
C8_Witness ==
    /\ last.op = "create" /\ last.ret.kind = "ValueError"
    /\ last.ret.msg[1] = "Scheduling conflicts detected: "
    /\ \E r1, r2 \in StoredRecords :
          r1 # r2 /\ Names(last.ret.msg, r1) /\ Names(last.ret.msg, r2)

\* the stored records of the payload's doctor and date whose slot touches the
\* payload's
TouchedBy(payload, db) ==
    LET candidate == NewAppointment("", payload.items) IN
    {r \in SeqToSet(db) : SameDoctorAndDate(r, candidate) /\ Touching(r, candidate)}

\* C9: a create with a valid payload whose slot touches the slot of a stored
\* record of its doctor and date, and overlaps none, returns the new record
\* and appends it to the store.
C9_TouchingAccepted ==
    [][ (/\ CreateReachesConflictCheck
         /\ TouchedBy(last'.payload, appointments_db) # {}
         /\ Colliding(last'.payload, appointments_db) = {}) =>
          /\ last'.ret.kind = "record"
          /\ last'.ret.recs[1] = NewAppointment(last'.ret.recs[1].id, last'.payload.items)
          /\ appointments_db' = Append(appointments_db, last'.ret.recs[1]) ]_vars

\* a create has appended a record that starts when a stored record of its
\* doctor and date ends, and the store also holds a record that was appended
\* although it ends when an earlier record of its doctor and date starts
C9_Witness ==
    /\ last.op = "create" /\ last.ret.kind = "record" /\ ~last.hit
    /\ appointments_db[Len(appointments_db)] = last.ret.recs[1]
    /\ \E r \in StoredRecords :
          SameDoctorAndDate(r, last.ret.recs[1]) /\ EndOf(r) = StartOf(last.ret.recs[1])
    /\ \E i, j \in 1..Len(appointments_db) :
          /\ i < j
          /\ SameDoctorAndDate(appointments_db[i], appointments_db[j])
          /\ EndOf(appointments_db[j]) = StartOf(appointments_db[i])

NotFound(id) == Raise("ValueError", <<"Appointment not found: ", id>>)

InvalidStatus(status) == Raise("ValueError", <<"Invalid status: ", status>>)

\* C10 (as claimed): update_status with an id that no stored record has
\* fails with the not-found error, whatever the status.
C10_UnknownIdNotFound ==
    (last.op = "update_status" /\ last.id.v \notin IdsOf(appointments_db))
        => last.ret = NotFound(last.id.v)

\* C10 (amended): update_status with a non-empty id that no stored record
\* has, and a key that is not in the ledger, fails and changes neither store
\* nor ledger: with the not-found error if the status is one of the four
\* valid values, with the invalid-status error if it is not.
C10_UnknownIdFails ==
    [][ (/\ last'.op = "update_status"
         /\ ~(last'.key # NoKey /\ last'.key \in DOMAIN idempotency_keys)
         /\ last'.id.v # ""
         /\ last'.id.v \notin IdsOf(appointments_db)) =>
          /\ last'.ret = IF last'.status \in {CONFIRMED, SCHEDULED, UPCOMING, CANCELLED}
                         THEN NotFound(last'.id.v)
                         ELSE InvalidStatus(last'.status)
          /\ appointments_db' = appointments_db
          /\ idempotency_keys' = idempotency_keys ]_vars

\* an update_status with an unknown id and an invalid status failed with the
\* invalid-status error
C10_Witness ==
    /\ last.op = "update_status" /\ ~last.hit
    /\ last.id.v # "" /\ last.id.v \notin IdsOf(appointments_db)
    /\ ~(last.status \in {CONFIRMED, SCHEDULED, UPCOMING, CANCELLED})
    /\ last.ret = InvalidStatus(last.status)

\* the list without its i-th element
Without(db, i) == SubSeq(db, 1, i - 1) \o SubSeq(db, i + 1, Len(db))

\* the position of the record with the id in the list (0: none)
Position(db, id) ==
    IF id \in IdsOf(db) THEN CHOOSE i \in 1..Len(db) : db[i].id = id ELSE 0

\* C15 (as claimed): delete(id) returns true and removes exactly the record
\* with that id when there is one, and returns false and removes nothing
\* when there is none; other records, their order and the ledger stay.
C15_DeleteExact ==
    [][ last'.op = "delete" =>
          /\ idempotency_keys' = idempotency_keys
          /\ IF last'.id.v \in IdsOf(appointments_db)
             THEN /\ last'.ret = ReturnBool(TRUE)
                  /\ appointments_db' =
                         Without(appointments_db, Position(appointments_db, last'.id.v))
             ELSE /\ last'.ret = ReturnBool(FALSE)
                  /\ appointments_db' = appointments_db ]_vars

\* C15 (amended): the same for every id that is not the empty string; with
\* the empty string delete raises the error for an empty id and changes
\* nothing.
C15_DeleteNonEmpty ==
    [][ last'.op = "delete" =>
          /\ idempotency_keys' = idempotency_keys
          /\ IF last'.id.v = ""
             THEN /\ last'.ret = Raise("ValueError", <<"Appointment ID cannot be empty">>)
                  /\ appointments_db' = appointments_db
             ELSE IF last'.id.v \in IdsOf(appointments_db)
             THEN /\ last'.ret = ReturnBool(TRUE)
                  /\ appointments_db' =
                         Without(appointments_db, Position(appointments_db, last'.id.v))
             ELSE /\ last'.ret = ReturnBool(FALSE)
                  /\ appointments_db' = appointments_db ]_vars

\* a delete has returned true, the store still holds a record that was
\* stored before the deleted one, and the ledger holds a result
C15_Witness ==
    /\ last.op = "delete" /\ last.ret = ReturnBool(TRUE)
    /\ last.id.v \notin IdsOf(appointments_db)
    /\ last.id.v \notin SeedIds
    /\ appointments_db # << >>
    /\ DOMAIN idempotency_keys # {}

\* C16: update_status with the id of a stored record and a valid status
\* leaves the number and order of the records, every other record, and
\* every field but status of the record with the id as they were; when the
\* call is not answered from the ledger that record's status is the new one.
C16_OnlyStatusChanges ==
    [][ (/\ last'.op = "update_status"
         /\ last'.id.v \in IdsOf(appointments_db)
         /\ is_valid_status(last'.status)) =>
          /\ Len(appointments_db') = Len(appointments_db)
          /\ \A i \in 1..Len(appointments_db) :
                IF appointments_db[i].id = last'.id.v
                THEN /\ [appointments_db'[i] EXCEPT !.status = ""]
                          = [appointments_db[i] EXCEPT !.status = ""]
                     /\ ~last'.hit => appointments_db'[i].status = last'.status
                ELSE appointments_db'[i] = appointments_db[i] ]_vars

\* an update_status has given a new status to a record that is neither the
\* first nor the last of the store
C16_Witness ==
    /\ last.op = "update_status" /\ ~last.hit /\ last.ret.kind = "record"
    /\ \E i \in 2..(Len(appointments_db) - 1) :
          /\ appointments_db[i].id = last.id.v
          /\ appointments_db[i].status = last.status
          /\ last.status # SCHEDULED

\* C17: the status of every stored record is one of Confirmed, Scheduled,
\* Upcoming, Cancelled; an update_status with another status, when it is not
\* answered from the ledger, raises a ValueError (the invalid-status error
\* when the id is not empty) and leaves every record as it was.
C17_StatusValid ==
    /\ [](\A r \in StoredRecords : r.status \in {CONFIRMED, SCHEDULED, UPCOMING, CANCELLED})
    /\ [][ (/\ last'.op = "update_status"
            /\ last'.status \notin {CONFIRMED, SCHEDULED, UPCOMING, CANCELLED}
            /\ ~(last'.key # NoKey /\ last'.key \in DOMAIN idempotency_keys)) =>
             /\ last'.ret.kind = "ValueError"
             /\ last'.id.v # "" => last'.ret = InvalidStatus(last'.status)
             /\ appointments_db' = appointments_db ]_vars

\* an update_status with the id of a stored record and the status Pending
\* has raised the invalid-status error, and the record has the status it had
C17_Witness ==
    /\ last.op = "update_status" /\ ~last.hit
    /\ last.status = "Pending"
    /\ last.ret = InvalidStatus("Pending")
    /\ \E r \in StoredRecords : r.id = last.id.v /\ r.status = CANCELLED

(***************************************************************************)
(* Two calls at once (ThreadSpec).                                         *)
(***************************************************************************)
\* the calls of threads t and u have both appended or changed a record
BothMutated(t, u) == threads[t].mutated /\ threads[u].mutated

\* C11: of two concurrent creates whose valid payloads overlap each other on
\* one doctor and date at most one appends its record, so that at every
\* moment no two stored records of one doctor and date overlap and no two
\* stored records have the same id.
C11_CreatesExclusive ==
    /\ \A t, u \in Threads :
          (/\ t # u
           /\ threads[t].op = "create" /\ threads[u].op = "create"
           /\ BothMutated(t, u)
           /\ SameDoctorAndDate(threads[t].new_appointment, threads[u].new_appointment))
              => Slot(threads[t].new_appointment) \cap Slot(threads[u].new_appointment) = {}
    /\ \A i, j \in 1..Len(appointments_db) :
          i < j =>
             /\ appointments_db[i].id # appointments_db[j].id
             /\ SameDoctorAndDate(appointments_db[i], appointments_db[j])
                   => Slot(appointments_db[i]) \cap Slot(appointments_db[j]) = {}

\* C12: of two concurrent calls of the same operation (create and create, or
\* update_status and update_status) that carry the same idempotency key, a
\* key the ledger did not hold before, only one performs the mutation, and
\* when one has performed it every record the other returns is the record
\* the first returned.
C12_SameKeyOnce ==
    \A t, u \in Threads :
        (/\ t # u
         /\ threads[t].pc = "done" /\ threads[u].pc = "done"
         /\ threads[t].op = threads[u].op
         /\ threads[t].key # NoKey /\ threads[t].key = threads[u].key)
            => /\ ~BothMutated(t, u)
               /\ (threads[t].mutated /\ threads[u].ret.kind = "record")
                     => threads[u].ret = threads[t].ret

(***************************************************************************)
(* The read operations (ReadSpec).                                         *)
(***************************************************************************)
\* the filters of the latest call
LastFilters == FilterItems(last.payload)

\* the latest call was list_with_overlaps with a start_date and an end_date
\* that are both dates
RangeGiven ==
    /\ last.op = "list_with_overlaps"
    /\ {"start_date", "end_date"} \subseteq DOMAIN LastFilters
    /\ StrptimeYMD(LastFilters["start_date"]).ok
    /\ StrptimeYMD(LastFilters["end_date"]).ok

\* date a is a later day than date b
DateAfter(a, b) ==
    \/ a.year > b.year
    \/ a.year = b.year /\ a.month > b.month
    \/ a.year = b.year /\ a.month = b.month /\ a.day > b.day

StartAfterEnd ==
    DateAfter(StrptimeYMD(LastFilters["start_date"]), StrptimeYMD(LastFilters["end_date"]))

SpanDays ==
    ToOrdinal(StrptimeYMD(LastFilters["end_date"]))
        - ToOrdinal(StrptimeYMD(LastFilters["start_date"]))

RangeErrors ==
    { Raise("ValueError", <<"Start date cannot be after end date">>),
      Raise("ValueError", <<"Date range cannot exceed 365 days">>) }

\* C13: list_with_overlaps with a start_date after the end_date, or with
\* more than 365 days from start_date to end_date, raises the error of the
\* range check and returns no records; with start_date = end_date, and with
\* exactly 365 days between them, the range check raises nothing.
C13_RangeChecked ==
    RangeGiven =>
        IF StartAfterEnd \/ SpanDays > 365
        THEN last.ret \in RangeErrors /\ last.ret.recs = << >>
        ELSE last.ret \notin RangeErrors

\* a call with exactly 365 days between start_date and end_date, which the
\* range check has let through
C13_Witness ==
    /\ RangeGiven
    /\ SpanDays = 365
    /\ last.ret \notin RangeErrors
    /\ last.ret.kind # "none"

\* C14: list_with_overlaps with a start_date that is not after the end_date,
\* at most 365 days between them, and no other filter that is wrong, does
\* not fail: it returns records, overlap clusters and metadata.
C14_RangeAccepted ==
    (/\ RangeGiven
     /\ ~StartAfterEnd /\ SpanDays <= 365
     /\ DOMAIN LastFilters \subseteq ValidFilterKeys \cup {"start_date", "end_date"}
     /\ "status" \in DOMAIN LastFilters => is_valid_status(LastFilters["status"])
     /\ "date" \in DOMAIN LastFilters => StrptimeYMD(LastFilters["date"]).ok)
        => last.ret.kind = "dict"

\* the stored records that have the value of every filter among date, status
\* and doctorName that Supplied says is given, in store order
Matching(Supplied(_)) ==
    LET Match(r) ==
            /\ Supplied("date") => r.date = LastFilters["date"]
            /\ Supplied("status") => r.status = LastFilters["status"]
            /\ Supplied("doctorName") => r.doctorName = LastFilters["doctorName"]
    IN  SelectSeq(appointments_db, Match)

\* C18 (as claimed): a list call that returns gives, in store order, exactly
\* the stored records that match every filter the call carries among date,
\* status and doctorName.
C18_ListMatchesSupplied ==
    (last.op = "list" /\ last.ret.kind = "list") =>
        LET Supplied(key) == key \in DOMAIN LastFilters
        IN  last.ret.recs = Matching(Supplied)

\* C18 (amended): the same, where a filter whose value is the empty string
\* counts as absent.
C18_ListMatchesNonEmpty ==
    (last.op = "list" /\ last.ret.kind = "list") =>
        LET Supplied(key) == key \in DOMAIN LastFilters /\ LastFilters[key] # ""
        IN  last.ret.recs = Matching(Supplied)

\* a list call with a date, a status and an empty doctorName has returned
\* one record of a store that holds two
C18_Witness ==
    /\ last.op = "list" /\ last.ret.kind = "list"
    /\ DOMAIN LastFilters = {"date", "status", "doctorName"}
    /\ LastFilters["doctorName"] = "" /\ LastFilters["date"] # ""
    /\ LastFilters["status"] # ""
    /\ Len(last.ret.recs) = 1
    /\ Len(appointments_db) = 2

\* s is written YYYY-MM-DD and is a day of the calendar
IsoDate(s) ==
    LET cs == Chars(s) IN
    /\ Len(cs) = 10
    /\ cs[5] = "-" /\ cs[8] = "-"
    /\ \A i \in {1, 2, 3, 4, 6, 7, 9, 10} : IsDigit(cs[i])
    /\ StrptimeYMD(s).ok

\* C19 (as claimed): list raises a ValueError and returns no records when the
\* filters hold a key other than date, status and doctorName, a date that
\* is not YYYY-MM-DD, or a status that is not one of the four values.
C19_ListRejects ==
    (/\ last.op = "list" /\ last.payload.type = "dict"
     /\ \/ ~(DOMAIN LastFilters \subseteq {"date", "status", "doctorName"})
        \/ "date" \in DOMAIN LastFilters /\ ~IsoDate(LastFilters["date"])
        \/ /\ "status" \in DOMAIN LastFilters
           /\ LastFilters["status"] \notin {CONFIRMED, SCHEDULED, UPCOMING, CANCELLED})
        => last.ret.kind = "ValueError" /\ last.ret.recs = << >>

\* C19 (amended): list raises a ValueError and returns no records exactly
\* when the filters hold a key other than date, status and doctorName, a
\* non-empty date that strptime does not read as year-month-day (months and
\* days of one digit are read), or a non-empty status that is not one of the
\* four values; every other dict of filters gives a list.
C19_ListRejectsNonEmpty ==
    (last.op = "list" /\ last.payload.type = "dict") =>
        IF \/ ~(DOMAIN LastFilters \subseteq {"date", "status", "doctorName"})
           \/ /\ "date" \in DOMAIN LastFilters /\ LastFilters["date"] # ""
              /\ ~StrptimeYMD(LastFilters["date"]).ok
           \/ /\ "status" \in DOMAIN LastFilters /\ LastFilters["status"] # ""
              /\ LastFilters["status"] \notin {CONFIRMED, SCHEDULED, UPCOMING, CANCELLED}
        THEN last.ret.kind = "ValueError" /\ last.ret.recs = << >>
        ELSE last.ret.kind = "list"

\* a list call with an unknown key, a date that is no date and a status that
\* is not known has raised a ValueError, on a store that holds records
C19_Witness ==
    /\ last.op = "list" /\ last.ret.kind = "ValueError"
    /\ {"patientName", "date", "status"} \subseteq DOMAIN LastFilters
    /\ LastFilters["date"] = "15/01/2024" /\ LastFilters["status"] = "Pending"
    /\ appointments_db # << >>

(***************************************************************************)
(* The caller's records (CallerSpec).                                      *)
(***************************************************************************)
\* the records of the latest return, as values
ReturnedRecords == {last.ret.recs[n] : n \in 1..Len(last.ret.recs)}

Untouched(r) == \A field \in CallerFields : r[field] # Changed

\* C20: the records that list, get, create and update_status return are
\* copies: none of them is an object of the list of stored records, the
\* caller assigning to a field of one leaves every stored record as it was,
\* and what list and get return afterwards are the stored values, without
\* the caller's change.
C20_ReturnsAreCopies ==
    /\ [](/\ \A n \in 1..Len(held) : held[n].owner # "store"
          /\ \A r \in StoredRecords : Untouched(r)
          /\ last.op \in {"list", "get"} /\ last.ret.kind \in {"list", "record"}
                 => /\ ReturnedRecords \subseteq StoredRecords
                    /\ \A r \in ReturnedRecords : Untouched(r))
    /\ [][last'.op = "mutate" => appointments_db' = appointments_db]_vars

\* the caller has changed the status of a record it was handed, and the
\* stored record with that id still has the status it had
C20_Witness ==
    /\ last.op = "mutate"
    /\ \E n \in 1..Len(held) :
          /\ held[n].value.status = Changed
          /\ \E r \in StoredRecords :
                r.id = held[n].value.id /\ r.status \in {SCHEDULED, CANCELLED}

(***************************************************************************)
(* All operations, one call after another (ServiceSpec).                   *)
(***************************************************************************)
NoFilters == {NoPayload, Dict(<< >>)}

\* C21: on an empty store, list without filters returns the empty list and
\* raises nothing.
C21_EmptyList ==
    last.op = "list" /\ last.payload \in NoFilters /\ appointments_db = << >>
        => last.ret = [kind |-> "list", recs |-> << >>, msg |-> << >>, flag |-> FALSE]

\* every record has been deleted, and list without filters has then been
\* called and has returned
C21_Witness ==
    /\ last.op = "list"
    /\ last.payload = NoPayload
    /\ appointments_db = << >>
    /\ issued # {}
    /\ last.ret.kind = "list"

Statuses == {CONFIRMED, SCHEDULED, UPCOMING, CANCELLED}

Modes == {ONLINE, IN_PERSON}

\* C22: on an empty store dashboard_metrics raises nothing and returns
\* totalAppointments 0, the count 0 for each of the four statuses and for
\* both modes, averageDuration 0, and no peak hours and no busy days.
C22_EmptyMetrics ==
    last.op = "dashboard_metrics" /\ appointments_db = << >>
        => /\ last.ret.kind = "metrics"
           /\ last.ret.totalAppointments = 0
           /\ DOMAIN last.ret.statusCounts = Statuses
           /\ \A status \in Statuses : last.ret.statusCounts[status] = 0
           /\ DOMAIN last.ret.modeCounts = Modes
           /\ \A mode \in Modes : last.ret.modeCounts[mode] = 0
           /\ last.ret.averageDuration = 0
           /\ last.ret.peakHours = << >>
           /\ last.ret.busyDays = << >>

\* every record has been deleted, and dashboard_metrics has then been called
C22_Witness ==
    /\ last.op = "dashboard_metrics"
    /\ appointments_db = << >>
    /\ issued # {}
    /\ last.ret.kind = "metrics"

\* the number of stored records whose field has the value
Having(field, value) ==
    Cardinality({i \in 1..Len(appointments_db) : appointments_db[i][field] = value})

DoctorsPresent == {appointments_db[i].doctorName : i \in 1..Len(appointments_db)}

\* C25: on a non-empty store that create, update_status and delete have
\* made, dashboard_metrics returns totalAppointments = the number of stored
\* records; a count for each of the four statuses, which add up to
\* totalAppointments; a count for both modes, which add up to
\* totalAppointments; and a count for exactly the doctors of the stored
\* records, which add up to totalAppointments.
C25_CountsAddUp ==
    last.op = "dashboard_metrics" /\ appointments_db # << >>
        => LET m == last.ret
               doctors == m.doctorCounts
           IN
           /\ m.kind = "metrics"
           /\ m.totalAppointments = Len(appointments_db)
           /\ DOMAIN m.statusCounts = Statuses
           /\ \A status \in Statuses : m.statusCounts[status] = Having("status", status)
           /\ m.statusCounts[CONFIRMED] + m.statusCounts[SCHEDULED]
                  + m.statusCounts[UPCOMING] + m.statusCounts[CANCELLED]
                  = m.totalAppointments
           /\ DOMAIN m.modeCounts = Modes
           /\ \A mode \in Modes : m.modeCounts[mode] = Having("mode", mode)
           /\ m.modeCounts[ONLINE] + m.modeCounts[IN_PERSON] = m.totalAppointments
           /\ {doctors[k].key : k \in 1..Len(doctors)} = DoctorsPresent
           /\ Len(doctors) = Cardinality(DoctorsPresent)
           /\ \A k \in 1..Len(doctors) :
                  doctors[k].count = Having("doctorName", doctors[k].key)
           /\ SumOf([k \in 1..Len(doctors) |-> doctors[k].count]) = m.totalAppointments

\* dashboard_metrics has been called on a store with a created record, two
\* doctors and a record set to Cancelled
C25_Witness ==
    /\ last.op = "dashboard_metrics"
    /\ last.ret.kind = "metrics"
    /\ Len(appointments_db) >= 2
    /\ Cardinality(DoctorsPresent) >= 2
    /\ last.ret.statusCounts[CANCELLED] = 1
    /\ last.ret.statusCounts[SCHEDULED] = 1

(***************************************************************************)
(* The metrics (MetricsSpec).                                              *)
(***************************************************************************)
StartHours == [i \in 1..Len(appointments_db) |-> StrptimeHM(appointments_db[i].time).hour]

Dates == [i \in 1..Len(appointments_db) |-> appointments_db[i].date]

\* how often v is in values, and where it is first
Times(values, v) == Cardinality({i \in 1..Len(values) : values[i] = v})

First(values, v) == CHOOSE i \in 1..Len(values) :
                        values[i] = v /\ \A j \in 1..(i - 1) : values[j] # v

\* v comes before w: it is there more often, or as often and earlier
Ahead(values, v, w) ==
    \/ Times(values, v) > Times(values, w)
    \/ Times(values, v) = Times(values, w) /\ First(values, v) < First(values, w)

\* top is the list of the (at most n) values that are there most often, by
\* falling count, values of equal count by first appearance
IsTop(top, values, n) ==
    LET present == SeqToSet(values)
        kept == SeqToSet(top)
    IN  /\ kept \subseteq present
        /\ Len(top) = (IF Cardinality(present) < n THEN Cardinality(present) ELSE n)
        /\ \A i, j \in 1..Len(top) : i < j => Ahead(values, top[i], top[j])
        /\ \A v \in kept, w \in present \ kept : Ahead(values, v, w)

\* C26: peakHours are the (at most 3) start hours with the most
\* appointments and busyDays the (at most 5) dates with the most
\* appointments, each by falling count, hours (dates) of equal count in the
\* order of their first appearance in the store.
C26_TopHoursAndDays ==
    last.op = "dashboard_metrics"
        => /\ last.ret.kind = "metrics"
           /\ IsTop(last.ret.peakHours, StartHours, PeakHoursKept)
           /\ IsTop(last.ret.busyDays, Dates, BusyDaysKept)

\* the metrics of a store with more than three start hours, where the hour
\* reported first is not the hour of the first record and two reported hours
\* have the same count, and with more than five dates
C26_Witness ==
    /\ last.op = "dashboard_metrics"
    /\ Cardinality(SeqToSet(StartHours)) > PeakHoursKept
    /\ Cardinality(SeqToSet(Dates)) > BusyDaysKept
    /\ Len(last.ret.busyDays) = BusyDaysKept
    /\ last.ret.peakHours[1] # StartHours[1]
    /\ Times(StartHours, last.ret.peakHours[1]) = 2
    /\ Times(StartHours, last.ret.peakHours[2]) = Times(StartHours, last.ret.peakHours[3])

(***************************************************************************)
(* Validation (ValidateSpec).                                              *)
(***************************************************************************)
FieldOrder == <<"patientName", "date", "time", "duration", "doctorName", "mode">>

\* the field an error message is about
ErrorField(message) ==
    CASE message \in {"Patient name is required", "Patient name must be a string",
                      "Patient name cannot be empty or whitespace only"} -> "patientName"
      [] message \in {"Date is required", "Date must be a string",
                      "Date must be in YYYY-MM-DD format"} -> "date"
      [] message \in {"Time is required", "Time must be a string",
                      "Time must be in HH:MM format (24-hour)"} -> "time"
      [] message \in {"Duration is required", "Duration must be an integer",
                      "Duration must be greater than 0 minutes",
                      "Duration cannot exceed 480 minutes (8 hours)"} -> "duration"
      [] message \in {"Doctor name is required", "Doctor name must be a string",
                      "Doctor name cannot be empty or whitespace only"} -> "doctorName"
      [] message = "Appointment mode is required" -> "mode"
      [] message = "Appointment mode must be a string" -> "mode"
      [] message = "Appointment mode must be one of: online, in-person" -> "mode"
      [] OTHER -> "none"

\* the field of the payload is missing or is not what an appointment needs
FieldFails(items, field) ==
    \/ field \notin DOMAIN items
    \/ CASE field \in {"patientName", "doctorName"} ->
                items[field].t # "str" \/ Strip(Chars(items[field].v)) = << >>
         [] field = "date" -> items[field].t # "str" \/ ~StrptimeYMD(items[field].v).ok
         [] field = "time" -> items[field].t # "str" \/ ~StrptimeHM(items[field].v).ok
         [] field = "duration" ->
                items[field].t # "int" \/ items[field].v < 1 \/ items[field].v > MaxDuration
         [] field = "mode" -> items[field].t # "str" \/ items[field].v \notin Modes

\* C23: validate reports one error for every field that fails its check, in
\* the order patientName, date, time, duration, doctorName, mode; ok is true
\* iff there is no error; a duration passes iff it is an integer from 1 to
\* 480; and validate changes neither the store nor the ledger.
C23_ValidateReportsAll ==
    /\ [](last.op = "validate" /\ last.payload.type = "dict"
            => LET errors == last.ret.msg
                   items == last.payload.items
               IN  /\ [i \in 1..Len(errors) |-> ErrorField(errors[i])]
                          = SelectSeq(FieldOrder, LAMBDA field : FieldFails(items, field))
                   /\ last.ret.flag = (errors = << >>))
    /\ [][last'.op = "validate"
            => appointments_db' = appointments_db /\ idempotency_keys' = idempotency_keys]_vars

(***************************************************************************)
(* The errors of create (Spec).                                            *)
(***************************************************************************)
\* C24: a create (not answered from the ledger) whose payload fails
\* validation raises a ValidationError, an error of another kind than the
\* error raised on a conflict and than the error for a bad argument, and
\* the error carries the field errors as a list with one entry for each
\* failed check, not as one string.
C24_ValidationErrorKeepsList ==
    last.op = "create" /\ ~last.hit /\ last.payload.type = "dict"
        /\ ~validate(last.payload).flag
        => /\ last.ret.kind = "ValidationError"
           /\ last.ret.msg = validate(last.payload).msg

(***************************************************************************)
(* What may change a stored record (ServiceSpec).                          *)
(***************************************************************************)
\* C27: from one state to the next, the status of a stored record changes
\* only in an update_status call on its id, and a stored record goes away
\* only in a delete call on its id; create, list, get, the overlap analysis
\* and the metrics leave every stored record as it is and where it is.
C27_OnlyUpdateAndDeleteTouch ==
    [][ /\ \A r \in StoredRecords :
              /\ r.id \notin IdsOf(appointments_db')
                    => last'.op = "delete" /\ last'.id = PyStr(r.id)
              /\ (\E i \in 1..Len(appointments_db') :
                      /\ appointments_db'[i].id = r.id
                      /\ appointments_db'[i].status # r.status)
                    => last'.op = "update_status" /\ last'.id = PyStr(r.id)
        /\ last'.op \in {"create", "list", "get", "list_with_overlaps", "dashboard_metrics"}
              => /\ Len(appointments_db') >= Len(appointments_db)
                 /\ \A i \in 1..Len(appointments_db) :
                        appointments_db'[i] = appointments_db[i] ]_vars

\* a record has been deleted from a store in which a record had been set to
\* Cancelled and another one had been created
C27_Witness ==
    /\ last.op = "delete"
    /\ last.ret.flag
    /\ \E r \in StoredRecords : r.status = CANCELLED
    /\ issued # SeedIds

(***************************************************************************)
(* The ledger and the two operations that use it (Spec).                   *)
(***************************************************************************)
\* In Spec create registers records of status Scheduled and update_status,
\* whose only valid argument is Cancelled, records of status Cancelled: the
\* status of a ledger entry tells which operation has registered it.
RegisteredByCreate(key) ==
    key \in DOMAIN idempotency_keys /\ idempotency_keys[key].status = SCHEDULED

RegisteredByUpdate(key) ==
    key \in DOMAIN idempotency_keys /\ idempotency_keys[key].status = CANCELLED

\* C28: the ledger is kept by operation: an update_status call with a key
\* that only create has used is not answered from the ledger, and a create
\* with a key that only update_status has used is not answered from the
\* ledger.
C28_LedgerPerOperation ==
    [][ /\ last'.op = "update_status" /\ RegisteredByCreate(last'.key) => ~last'.hit
        /\ last'.op = "create" /\ RegisteredByUpdate(last'.key) => ~last'.hit ]_vars

(***************************************************************************)
(* The order of the steps of create (ThreadSpec).                          *)
(***************************************************************************)
\* thread t begins a create in this step
BeginsCreate(t) == threads[t].pc = "idle" /\ threads'[t].op = "create"

\* the places create goes to from a place
CreateOrder ==
    [idle |-> {"create_generate", "done"}, create_generate |-> {"create_detect", "done"},
     create_detect |-> {"create_append", "done"}, create_append |-> {"create_register"},
     create_register |-> {"done"}]

\* C29: create looks the key up, validates, generates the id, detects
\* conflicts, appends and registers, in this order: a call whose key the
\* ledger holds returns the ledger's record whatever its payload; a call
\* whose key the ledger does not hold and whose payload is invalid and
\* overlaps a stored record raises the validation error, not the conflict
\* error; and a record is registered in the ledger only when it is in the
\* store already.
C29_CreateOrder ==
    [][\A t \in Threads :
          /\ (threads'[t].op = "create" /\ threads'[t].pc # threads[t].pc)
                => threads'[t].pc \in CreateOrder[threads[t].pc]
          /\ (BeginsCreate(t) /\ threads'[t].key # NoKey
                  /\ threads'[t].key \in DOMAIN idempotency_keys)
                => /\ threads'[t].pc = "done"
                   /\ threads'[t].ret = ReturnRecord(idempotency_keys[threads'[t].key])
          /\ (BeginsCreate(t)
                  /\ ~(threads'[t].key # NoKey /\ threads'[t].key \in DOMAIN idempotency_keys)
                  /\ ~validate(threads'[t].payload).flag
                  /\ Colliding(threads'[t].payload, appointments_db) # {})
                => /\ threads'[t].pc = "done"
                   /\ threads'[t].ret.kind = "ValueError"
                   /\ threads'[t].ret.msg[1] = "Validation failed: "
          /\ (threads[t].op = "create" /\ threads[t].pc # "done" /\ threads'[t].pc = "done"
                  /\ idempotency_keys' # idempotency_keys)
                => /\ threads[t].key \in DOMAIN idempotency_keys'
                   /\ idempotency_keys'[threads[t].key].id \in IdsOf(appointments_db)
                   /\ appointments_db' = appointments_db ]_vars

\* one create has registered its record under a key, and another create with
\* the same key and a payload that is invalid and overlaps a stored record
\* has returned that record
C29_Witness ==
    \E t, u \in Threads :
        /\ t # u
        /\ threads[t].op = "create" /\ threads[t].pc = "done" /\ threads[t].mutated
        /\ threads[u].op = "create" /\ threads[u].pc = "done"
        /\ threads[t].key # NoKey /\ threads[u].key = threads[t].key
        /\ ~validate(threads[u].payload).flag
        /\ Colliding(threads[u].payload, appointments_db) # {}
        /\ threads[u].ret = threads[t].ret
        /\ threads[u].ret.kind = "record"

(***************************************************************************)
(* The overlap clusters (OverlapSpec).                                     *)
(***************************************************************************)
\* the records that are searched: the input, of the date where one is given
Searched ==
    {r \in SeqToSet(last.payload.items) : last.status = "" \/ r.date = last.status}

Overlapping(a, b) == a # b /\ SameDoctorAndDate(a, b) /\ Slot(a) \cap Slot(b) # {}

\* the records that a chain of overlaps links with one of group
RECURSIVE Linked(_)
Linked(group) ==
    LET more == group \cup {r \in Searched : \E g \in group : Overlapping(g, r)}
    IN  IF more = group THEN group ELSE Linked(more)

Clusters == {SeqToSet(last.ret.overlaps[k].appointments) : k \in 1..Len(last.ret.overlaps)}

\* C30: every cluster is a whole set of records of one doctor and date that
\* chains of overlaps link: two records that a chain links are in one
\* cluster together, and no record is in two clusters.
C30_ClustersMaximal ==
    last.op = "get_overlapping_appointments"
        => /\ \A cluster \in Clusters : \A r \in cluster : cluster = Linked({r})
           /\ \A a, b \in Searched :
                 a # b /\ b \in Linked({a}) => \E cluster \in Clusters : {a, b} \subseteq cluster
           /\ \A k, n \in 1..Len(last.ret.overlaps) :
                 k # n => SeqToSet(last.ret.overlaps[k].appointments)
                             \cap SeqToSet(last.ret.overlaps[n].appointments) = {}

\* the input is a collection of valid records with distinct ids
ValidInput ==
    /\ \A r \in SeqToSet(last.payload.items) :
           validate(Payload(r.patientName, r.date, r.time, r.duration,
                            r.doctorName, r.mode)).flag
    /\ \A k, n \in 1..Len(last.payload.items) :
           last.payload.items[k].id = last.payload.items[n].id => k = n

\* C31: on valid records with distinct ids, every returned cluster has at
\* least two members, lists no id twice, has members of one date and one
\* doctorName which are those of its key, and the start minute of its key is
\* the earliest start minute among its members.
C31_ClustersWellFormed ==
    last.op = "get_overlapping_appointments" /\ ValidInput
        => \A k \in 1..Len(last.ret.overlaps) :
              LET cluster == last.ret.overlaps[k]
                  members == cluster.appointments
              IN  /\ Len(members) >= 2
                  /\ \A m, n \in 1..Len(members) : members[m].id = members[n].id => m = n
                  /\ \A m \in 1..Len(members) :
                         /\ members[m].date = cluster.key[1]
                         /\ members[m].doctorName = cluster.key[2]
                         /\ cluster.key[3] <= StartOf(members[m])
                  /\ \E m \in 1..Len(members) : cluster.key[3] = StartOf(members[m])

\* a cluster of three records was returned: one record is in two
\* overlapping pairs of the cluster
C31_Witness ==
    /\ last.op = "get_overlapping_appointments" /\ ValidInput
    /\ \E k \in 1..Len(last.ret.overlaps) : Len(last.ret.overlaps[k].appointments) >= 3
    /\ Len(last.ret.overlaps) >= 2

(***************************************************************************)
(* The overlap clusters and the conflict detector (StoredOverlapSpec).     *)
(***************************************************************************)
\* the records that the detector finds for r among the records of db
Conflicts(r, db) == SeqToSet(detect_scheduling_conflicts(r, db))

\* C32: the clusters that list_with_overlaps returns agree with the conflict
\* detector run on the listed records: a listed record is in some cluster
\* exactly when the detector finds a conflict for it, two listed records of
\* one doctor and date that overlap are in one cluster together, and where no
\* stored record has a conflict in the store no cluster is reported.
C32_AnalyzerAgreesWithDetector ==
    last.op = "list_with_overlaps" /\ last.ret.kind = "dict"
        => LET records == last.ret.recs
           IN  /\ \A r \in SeqToSet(records) :
                     (\E cluster \in Clusters : r \in cluster) <=> Conflicts(r, records) # {}
               /\ \A a, b \in SeqToSet(records) :
                     Overlapping(a, b) => \E cluster \in Clusters : {a, b} \subseteq cluster
               /\ (\A r \in SeqToSet(appointments_db) : Conflicts(r, appointments_db) = {})
                     => last.ret.overlaps = << >>

\* list_with_overlaps has returned a cluster from a store which also has a
\* record with no conflict and two records whose slots only touch
C32_Witness ==
    /\ last.op = "list_with_overlaps" /\ last.ret.kind = "dict"
    /\ last.ret.overlaps # << >>
    /\ \E r \in SeqToSet(last.ret.recs) : Conflicts(r, last.ret.recs) = {}
    /\ \E a, b \in SeqToSet(last.ret.recs) : SameDoctorAndDate(a, b) /\ Touching(a, b)

(***************************************************************************)
(* Id generation (Spec).                                                   *)
(***************************************************************************)
\* C33: generate_unique_id_with_retry ends on every store, with an id that no
\* stored record has after at most max_retries draws, or with RuntimeError
\* after exactly max_retries draws each of which is the id of a stored
\* record; a create that returns a new record returns one with an id that no
\* stored record had, and a create that raises RuntimeError leaves the store
\* and the ledger as they were.
C33_IdGenerationEnds ==
    [][ calls' = calls + 1 /\ last'.op = "create"
          => LET outcomes == generate_unique_id_with_retry(appointments_db, DefaultMaxRetries)
             IN  /\ outcomes # {}
                 /\ \A o \in outcomes :
                       IF o.ok
                       THEN o.id \notin IdsOf(appointments_db)
                            /\ o.attempts \in 1..DefaultMaxRetries
                       ELSE o.attempts = DefaultMaxRetries
                            /\ UuidSpace \cap IdsOf(appointments_db) # {}
                 /\ last'.ret.kind = "record" /\ ~last'.hit
                       => last'.ret.recs[1].id \notin IdsOf(appointments_db)
                 /\ last'.ret.kind = "RuntimeError"
                       => /\ \E o \in outcomes : ~o.ok
                          /\ appointments_db' = appointments_db
                          /\ idempotency_keys' = idempotency_keys
                          /\ last'.key \notin DOMAIN idempotency_keys' ]_vars

\* a create with a valid payload and a key has raised RuntimeError
C33_Witness ==
    /\ last.op = "create" /\ last.ret.kind = "RuntimeError"
    /\ last.key # NoKey /\ last.key \notin DOMAIN idempotency_keys
    /\ validate(last.payload).flag

(***************************************************************************)
(* A list call among writes (SnapshotSpec).                                *)
(***************************************************************************)
\* C34: a list call that has returned while update_status and delete calls
\* ran has returned, under a status filter, only records with that status,
\* and all records it has returned have the values they had together in
\* one state of the store between the start and the return of the call.
C34_ConsistentSnapshot ==
    \A t \in Threads :
        threads[t].op = "list" /\ threads[t].pc = "done"
            => LET items == FilterItems(threads[t].payload)
                   out == threads[t].ret.recs
               IN  /\ Has(items, "status")
                         => \A n \in 1..Len(out) : out[n].status = items["status"]
                   /\ \E db \in threads[t].seen : SeqToSet(out) \subseteq SeqToSet(db)

(***************************************************************************)
(* Failed calls (Spec).                                                    *)
(***************************************************************************)
Failed(call) ==
    call.op \in {"create", "update_status"} /\ call.ret.kind \in {"ValueError", "RuntimeError"}

\* the call is one that the state allows: a create with a valid payload that
\* overlaps no stored record, an update_status of a stored record to one of
\* the four statuses
CorrectRequest(call, db) ==
    \/ /\ call.op = "create"
       /\ PayloadIsValid(call.payload)
       /\ Colliding(call.payload, db) = {}
    \/ /\ call.op = "update_status"
       /\ call.id.v \in IdsOf(db)
       /\ call.status \in {CONFIRMED, SCHEDULED, UPCOMING, CANCELLED}

\* C35: a create or update_status that fails leaves the store and the ledger
\* as they were, its key not in the ledger; and when the next call has the key
\* of the failed call and is one that the state allows, it is not answered
\* with the failure: it appends the record it returns, or sets the status of
\* the record it names, and puts what it returns in the ledger under the key
\* (unless, for a create, the id generation gives up).
C35_FailureChangesNothing ==
    [][ calls' = calls + 1 /\ last'.op \in {"create", "update_status"}
          => /\ Failed(last')
                   => /\ appointments_db' = appointments_db
                      /\ idempotency_keys' = idempotency_keys
                      /\ last'.key \notin DOMAIN idempotency_keys'
             /\ (/\ Failed(last) /\ last.key # NoKey /\ last'.key = last.key
                 /\ CorrectRequest(last', appointments_db)
                 /\ last'.ret.kind # "RuntimeError")
                   => /\ last'.ret.kind = "record" /\ ~last'.hit
                      /\ idempotency_keys' = (last'.key :> last'.ret.recs[1]) @@ idempotency_keys
                      /\ last'.op = "create"
                            => appointments_db' = Append(appointments_db, last'.ret.recs[1])
                      /\ last'.op = "update_status"
                            => /\ last'.ret.recs[1].status = last'.status
                               /\ last'.ret.recs[1] \in SeqToSet(appointments_db')
                               /\ IdsOf(appointments_db') = IdsOf(appointments_db) ]_vars

\* a create with a key and a valid payload has failed on a conflict with a
\* record that an earlier create without a key appended; the ledger is empty
C35_Witness ==
    /\ Failed(last) /\ last.op = "create" /\ last.key # NoKey
    /\ PayloadIsValid(last.payload)
    /\ last.ret.msg[1] = "Scheduling conflicts detected: "
    /\ Len(appointments_db) = MaxSeed + 1
    /\ idempotency_keys = << >>

(***************************************************************************)
(* Replays after the store has changed (Spec).                             *)
(***************************************************************************)
\* C36: a create that appends a record under a key puts the record it
\* returns in the ledger, no later call changes that entry, and a create
\* with a key that a create has registered returns the entry, with status
\* Scheduled, and changes neither store nor ledger, whether or not the store
\* still has the record and whatever status it has there.
C36_ReplayIgnoresStore ==
    [][ /\ \A key \in DOMAIN idempotency_keys :
              key \in DOMAIN idempotency_keys' /\ idempotency_keys'[key] = idempotency_keys[key]
        /\ (/\ last'.op = "create" /\ last'.key # NoKey /\ last'.ret.kind = "record"
            /\ last'.key \notin DOMAIN idempotency_keys)
              => idempotency_keys'[last'.key] = last'.ret.recs[1]
        /\ (calls' = calls + 1 /\ last'.op = "create" /\ RegisteredByCreate(last'.key))
              => /\ last'.ret = ReturnRecord(idempotency_keys[last'.key])
                 /\ last'.ret.recs[1].status = SCHEDULED
                 /\ appointments_db' = appointments_db
                 /\ idempotency_keys' = idempotency_keys
                 /\ issued' = issued ]_vars

\* a create was answered from the ledger with a record of status Scheduled
\* that a create had made, while the store has the record as Cancelled
C36_Witness ==
    /\ last.op = "create" /\ last.hit /\ last.ret.kind = "record"
    /\ last.ret.recs[1].status = SCHEDULED
    /\ last.ret.recs[1].id \in UuidSpace
    /\ \E r \in StoredRecords : r.id = last.ret.recs[1].id /\ r.status = CANCELLED

(***************************************************************************)
(* The ledger and the caller's records (CallerSpec).                       *)
(***************************************************************************)
\* C37: no record that create or update_status has handed to the caller is
\* the object that the ledger keeps: the caller assigning to a field of a
\* returned record leaves every ledger entry as it was, and a replay returns
\* a record without the caller's change.
C37_LedgerNotAliased ==
    /\ \A n \in 1..Len(held) : held[n].owner # "ledger"
    /\ \A key \in DOMAIN idempotency_keys : Untouched(idempotency_keys[key])
    /\ last.hit => \A r \in ReturnedRecords : Untouched(r)

(***************************************************************************)
(* Conflict detection and the statuses (Spec).                             *)
(***************************************************************************)
\* the stores that differ from db in the statuses of the records only
Restatused(db) ==
    {[i \in 1..Len(db) |-> [db[i] EXCEPT !.status = status[i]]] :
        status \in [1..Len(db) -> {CONFIRMED, SCHEDULED, UPCOMING, CANCELLED}]}

\* C38: a create that comes to the conflict check fails with the conflict
\* error or appends its record just as it would on any store that differs
\* from the present one in the statuses of its records only: the outcome is
\* that of the conflict detection on each such store, so that a record set
\* to Cancelled blocks its slot as before.
C38_StatusBlind ==
    [][ calls' = calls + 1 /\ CreateReachesConflictCheck
          => \A db \in Restatused(appointments_db) :
                LET conflicts ==
                        detect_scheduling_conflicts(
                            NewAppointment(UnknownId, last'.payload.items), db)
                IN  /\ conflicts # << >>
                          <=> /\ last'.ret.kind = "ValueError"
                              /\ last'.ret.msg[1] = "Scheduling conflicts detected: "
                              /\ appointments_db' = appointments_db
                    /\ conflicts = << >>
                          <=> /\ last'.ret.kind = "record"
                              /\ appointments_db' = Append(appointments_db, last'.ret.recs[1]) ]_vars

\* a create has failed on a conflict, and every stored record that its slot
\* overlaps is Cancelled
C38_Witness ==
    /\ last.op = "create" /\ last.ret.kind = "ValueError"
    /\ last.ret.msg[1] = "Scheduling conflicts detected: "
    /\ Colliding(last.payload, appointments_db) # {}
    /\ \A r \in Colliding(last.payload, appointments_db) : r.status = CANCELLED

====
